---------------------------- MODULE Spec2Model ----------------------------
(***************************************************************************)
(* A model of the courierkit availability core: half-open interval        *)
(* arithmetic (intervals.ts), schedule expansion (schedule.ts) and the    *)
(* seven-step slot generator getAvailableSlots (helpers.ts).              *)
(*                                                                         *)
(* Instants are whole hours counted from 2024-12-29T00:00Z, a Sunday:     *)
(* hour 24 is Monday 2024-12-30 (the first day of ISO week 2025-W01) and  *)
(* hour 72 is 2025-01-01.  A Date is its instant; a Duration is a number  *)
(* of hours.  An optional field is <<>> (undefined) or <<v>>.             *)
(***************************************************************************)
EXTENDS Integers, Sequences, FiniteSets, TLC

VARIABLES
    input,           \* the arguments of the call under way
    pc,              \* where the call stands
    result,          \* the value the call returned (<<>> before it returns)
    hostIdx,         \* getAvailableSlots: index of the host being processed
    config,          \* getAvailableSlots: the resolved values of the current host
    freeIntervals,   \* getAvailableSlots: free intervals of the current host
    intervalIdx,     \* generateCandidateSlots: index of the free interval walked
    slotStart,       \* generateCandidateSlots: the loop variable
    candidateSlots,  \* generateCandidateSlots: the slots array of the current host
    allSlots,        \* getAvailableSlots: slots admitted so far, all hosts
    hostLog,         \* per processed host: what it was given and what it returned
    order,           \* loadFacts: the load order topologicalSort returned
    facts,           \* loadFacts: the loaded-facts map
    loading,         \* loadFacts: the fact whose loader is awaited (<<>> when none)
    loadIdx,         \* loadFacts: index in order of the next fact to load
    ruleIdx,         \* evaluateRules: index of the next rule
    results,         \* evaluateRules: the results array
    reasons,         \* evaluateRules: the reasons array
    outcome,         \* evaluate: what policy.resolve returned (<<>> before the call)
    error,           \* the error the call was rejected with (<<>> when none)
    calls,           \* every loader, rule and resolver invocation, in order
    heap             \* the Date objects alive: reference -> the time it holds

policyVars == <<order, facts, loading, loadIdx, ruleIdx, results, reasons, outcome,
                error, calls, heap>>

vars == <<input, pc, result, hostIdx, config, freeIntervals, intervalIdx,
          slotStart, candidateSlots, allSlots, hostLog, policyVars>>

\* the state of evaluate before any call of it
PolicyIdle ==
    /\ order = <<>>
    /\ facts = <<>>
    /\ loading = <<>>
    /\ loadIdx = 0
    /\ ruleIdx = 0
    /\ results = <<>>
    /\ reasons = <<>>
    /\ outcome = <<>>
    /\ error = <<>>
    /\ calls = <<>>
    /\ heap = <<>>

slotVars == <<hostIdx, config, freeIntervals, intervalIdx, slotStart,
              candidateSlots, allSlots, hostLog>>

(***************************************************************************)
(* Bounds of the model.                                                    *)
(***************************************************************************)
\* Interval endpoints of the interval-arithmetic inputs range over 0..MaxInstant.
MaxInstant == 3

\* A candidate loop that never exits is followed for at most MaxSpin slots.
MaxSpin == 3

\* no zone is further from UTC than this many hours
MaxUtcOffset == 14

(***************************************************************************)
(* Generic helpers.                                                        *)
(***************************************************************************)
Opt(S) == {<<>>} \cup {<<v>> : v \in S}

\* JavaScript's  x ?? d
OrElse(x, d) == IF x = <<>> THEN d ELSE x[1]

Max(a, b) == IF a >= b THEN a ELSE b
Min(a, b) == IF a <= b THEN a ELSE b

Range(s) == {s[i] : i \in 1..Len(s)}

RECURSIVE Concat(_)
Concat(ss) == IF ss = <<>> THEN <<>> ELSE Head(ss) \o Concat(Tail(ss))

\* members every object literal inherits from Object.prototype
ObjectPrototypeKeys == {"constructor", "toString"}

(***************************************************************************)
(* intervals.ts                                                            *)
(***************************************************************************)
Interval(a, b) == [start |-> a, end |-> b]

cloneInterval(interval) == Interval(interval.start, interval.end)

intervalsOverlap(a, b) == a.start < b.end /\ b.start < a.end

\* the comparator of mergeIntervals: by start, then by end
CompareStartEnd(a, b) ==
    IF a.start - b.start # 0 THEN a.start - b.start ELSE a.end - b.end

\* the comparator of subtractIntervals: by start
CompareStart(a, b) == a.start - b.start

\* Array.prototype.sort (stable) under the comparator named by key
CompareIntervals(key, a, b) ==
    IF key = "startEnd" THEN CompareStartEnd(a, b) ELSE CompareStart(a, b)

RECURSIVE InsertInterval(_, _, _)
InsertInterval(x, s, key) ==
    IF s = <<>> THEN <<x>>
    ELSE IF CompareIntervals(key, Head(s), x) <= 0
         THEN <<Head(s)>> \o InsertInterval(x, Tail(s), key)
         ELSE <<x>> \o s

RECURSIVE SortIntervals(_, _)
SortIntervals(s, key) ==
    IF s = <<>> THEN <<>>
    ELSE InsertInterval(s[Len(s)], SortIntervals(SubSeq(s, 1, Len(s) - 1), key), key)

\* One turn of the sweep of mergeIntervals: current against the last merged.
MergeStep_NoTouch(merged, current) ==
    LET lastMerged == merged[Len(merged)] IN
    IF current.start < lastMerged.end
    THEN IF current.end > lastMerged.end
         THEN [merged EXCEPT ![Len(merged)].end = current.end]
         ELSE merged
    ELSE Append(merged, cloneInterval(current))

MergeStep(merged, current) ==
    LET lastMerged == merged[Len(merged)] IN
    IF current.start <= lastMerged.end
    THEN IF current.end > lastMerged.end
         THEN [merged EXCEPT ![Len(merged)].end = current.end]
         ELSE merged
    ELSE Append(merged, cloneInterval(current))

RECURSIVE MergeSweep(_, _, _)
MergeSweep(validIntervals, i, merged) ==
    IF i > Len(validIntervals) THEN merged
    ELSE MergeSweep(validIntervals, i + 1, MergeStep(merged, validIntervals[i]))

mergeIntervals(intervals) ==
    IF Len(intervals) = 0 THEN <<>>
    ELSE LET validIntervals ==
                 SortIntervals(SelectSeq(intervals, LAMBDA iv : iv.start < iv.end),
                               "startEnd")
         IN  IF Len(validIntervals) = 0 THEN <<>>
             ELSE MergeSweep(validIntervals, 2, <<cloneInterval(validIntervals[1])>>)

\* What is left of rem once sub is taken out of it (the body of the inner loop).
SubtractOne_NoSuffix(rem, sub) ==
    IF ~intervalsOverlap(rem, sub) THEN <<rem>>
    ELSE IF rem.start < sub.start THEN <<Interval(rem.start, sub.start)>>
    ELSE IF rem.end > sub.end THEN <<Interval(sub.end, rem.end)>>
    ELSE <<>>

SubtractOne(rem, sub) ==
    IF ~intervalsOverlap(rem, sub) THEN <<rem>>
    ELSE (IF rem.start < sub.start THEN <<Interval(rem.start, sub.start)>> ELSE <<>>)
         \o (IF rem.end > sub.end THEN <<Interval(sub.end, rem.end)>> ELSE <<>>)

\* remaining after every sub of mergedSubtract, from the j-th on, is taken out
RECURSIVE SubtractAll(_, _, _)
SubtractAll(remaining, mergedSubtract, j) ==
    IF j > Len(mergedSubtract) THEN remaining
    ELSE SubtractAll(
             Concat([k \in 1..Len(remaining) |->
                        SubtractOne(remaining[k], mergedSubtract[j])]),
             mergedSubtract, j + 1)

subtractIntervals(from, subtract) ==
    IF Len(from) = 0 THEN <<>>
    ELSE IF Len(subtract) = 0 THEN mergeIntervals(from)
    ELSE LET mergedFrom == mergeIntervals(from)
             mergedSubtract == mergeIntervals(subtract)
             pieces == Concat([i \in 1..Len(mergedFrom) |->
                          SubtractAll(<<cloneInterval(mergedFrom[i])>>,
                                      mergedSubtract, 1)])
         IN  SortIntervals(pieces, "start")

(***************************************************************************)
(* The calendar and the zone database (Date and Intl.DateTimeFormat).     *)
(* A civil date is its day number: day 0 is 2024-12-29, so date strings   *)
(* compare as day numbers do.  A LocalTime is a whole hour 0..23.         *)
(***************************************************************************)
TimeZones == {"UTC", "America/New_York", "Europe/Berlin", "Asia/Tokyo"}

\* the instants of the 2025 transitions, from the zone database:
\* New York 2025-03-09T07:00Z (02:00 EST becomes 03:00 EDT) and
\* 2025-11-02T06:00Z (02:00 EDT becomes 01:00 EST)
NewYorkSpringForward == 1687
NewYorkFallBack == 7398

\* Berlin 2025-03-30T01:00Z (02:00 CET becomes 03:00 CEST) and
\* 2025-10-26T01:00Z (03:00 CEST becomes 02:00 CET)
BerlinSpringForward == 2185
BerlinFallBack == 7225

\* hours the zone's wall clock is ahead of UTC at instant utc, from 2024-12-29
\* to the end of 2025 (Tokyo keeps no daylight time)
UtcOffset(timezone, utc) ==
    CASE timezone = "UTC" -> 0
      [] timezone = "America/New_York" ->
             IF NewYorkSpringForward <= utc /\ utc < NewYorkFallBack THEN 0 - 4 ELSE 0 - 5
      [] timezone = "Europe/Berlin" ->
             IF BerlinSpringForward <= utc /\ utc < BerlinFallBack THEN 2 ELSE 1
      [] timezone = "Asia/Tokyo" -> 9

\* the wall clock of the zone at instant utc, read as if it were UTC
\* (what formatToParts gives, put back through Date.UTC)
LocalClock(utc, timezone) == utc + UtcOffset(timezone, utc)

\* Date.getUTCDay of a day number: 0 is Sunday
getUTCDay(day) == day % 7

\* Date.getUTCFullYear of a day number, from 2024-01-01 to 2027-12-31
getUTCFullYear(day) ==
    IF day < 3 THEN 2024 ELSE IF day < 368 THEN 2025 ELSE IF day < 733 THEN 2026 ELSE 2027

\* the day number of January 1st of a year
JanuaryFirst(year) ==
    CASE year = 2024 -> 0 - 363 [] year = 2025 -> 3 [] year = 2026 -> 368 [] year = 2027 -> 733

(***************************************************************************)
(* schedule.ts                                                             *)
(***************************************************************************)
DAY_INDEX_TO_NAME ==
    <<"sunday", "monday", "tuesday", "wednesday", "thursday", "friday", "saturday">>

\* a 'YYYY-MM-DD' string is held as the instant of its UTC midnight
normalizeDate(date) == date

getDateStringInTimezone(date, timezone) == LocalClock(date, timezone) \div 24

getDayOfWeekInTimezone(date, timezone) ==
    DAY_INDEX_TO_NAME[getUTCDay(getDateStringInTimezone(date, timezone)) + 1]

getTimezoneOffset(utcDate, timezone) == LocalClock(utcDate, timezone) - utcDate

localTimeToUTC(date, time, timezone) ==
    LET roughEstimate == getDateStringInTimezone(date, timezone) * 24 + time
        offsetMs == getTimezoneOffset(roughEstimate, timezone)
        utcTime == roughEstimate - offsetMs
        verifyOffset == getTimezoneOffset(utcTime, timezone)
    IN  IF verifyOffset # offsetMs THEN roughEstimate - verifyOffset ELSE utcTime

isRuleEffective(rule, date) ==
    /\ rule.effectiveFrom # <<>> =>
           ~(getDateStringInTimezone(date, rule.timezone)
                 < getDateStringInTimezone(normalizeDate(rule.effectiveFrom[1]),
                                           rule.timezone))
    /\ rule.effectiveUntil # <<>> =>
           ~(getDateStringInTimezone(date, rule.timezone)
                 >= getDateStringInTimezone(normalizeDate(rule.effectiveUntil[1]),
                                            rule.timezone))

doesOverrideApply(override, date, timezone) ==
    getDateStringInTimezone(normalizeDate(override.date), timezone)
        = getDateStringInTimezone(date, timezone)

generateIntervalFromRule(rule, date) ==
    Interval(localTimeToUTC(date, rule.startTime, rule.timezone),
             localTimeToUTC(date, rule.endTime, rule.timezone))

\* the UTC midnights the generator yields, in order
RECURSIVE DaysFrom(_, _)
DaysFrom(current, end) ==
    IF current < end THEN <<current>> \o DaysFrom(current + 24, end) ELSE <<>>

iterateDays(range) == DaysFrom((range.start \div 24) * 24, range.end)

\* the intervals one day adds from the rules
RuleIntervalsOfDay(schedule, day) ==
    Concat([r \in 1..Len(schedule.rules) |->
        LET rule == schedule.rules[r]
            interval == generateIntervalFromRule(rule, day)
        IN  IF /\ getDayOfWeekInTimezone(day, rule.timezone) \in rule.days
               /\ isRuleEffective(rule, day)
               /\ interval.start < interval.end
            THEN <<interval>> ELSE <<>>])

\* the removals one day adds from the overrides
RemovalsOfDay(schedule, day, defaultTimezone) ==
    Concat([o \in 1..Len(schedule.overrides) |->
        LET override == schedule.overrides[o] IN
        IF ~doesOverrideApply(override, day, defaultTimezone) THEN <<>>
        ELSE IF override.available # FALSE THEN <<>>
        ELSE IF override.startTime # <<>> /\ override.endTime # <<>>
             THEN <<Interval(localTimeToUTC(day, override.startTime[1], defaultTimezone),
                             localTimeToUTC(day, override.endTime[1], defaultTimezone))>>
             ELSE <<Interval(day, day + 24)>>])

\* the additions one day adds from the overrides
AdditionsOfDay(schedule, day, defaultTimezone) ==
    Concat([o \in 1..Len(schedule.overrides) |->
        LET override == schedule.overrides[o]
            addStart == localTimeToUTC(day, override.startTime[1], defaultTimezone)
            addEnd == localTimeToUTC(day, override.endTime[1], defaultTimezone)
        IN  IF ~doesOverrideApply(override, day, defaultTimezone) THEN <<>>
            ELSE IF override.available = FALSE THEN <<>>
            ELSE IF override.startTime # <<>> /\ override.endTime # <<>>
                    /\ addStart < addEnd
                 THEN <<Interval(addStart, addEnd)>> ELSE <<>>])

\* the last step of expandSchedule: clip to the range, drop what is empty
ClipToRange(list, range) ==
    SelectSeq([i \in 1..Len(list) |->
                  Interval(Max(list[i].start, range.start), Min(list[i].end, range.end))],
              LAMBDA iv : iv.start < iv.end)

expandSchedule(schedule, range) ==
    LET defaultTimezone ==
            IF Len(schedule.rules) > 0 THEN schedule.rules[1].timezone ELSE "UTC"
        days == iterateDays(range)
        intervals ==
            Concat([d \in 1..Len(days) |-> RuleIntervalsOfDay(schedule, days[d])])
        overridesToRemove ==
            Concat([d \in 1..Len(days) |->
                       RemovalsOfDay(schedule, days[d], defaultTimezone)])
        overridesToAdd ==
            Concat([d \in 1..Len(days) |->
                       AdditionsOfDay(schedule, days[d], defaultTimezone)])
        merged == mergeIntervals(intervals)
        removed == IF Len(overridesToRemove) > 0
                   THEN subtractIntervals(merged, overridesToRemove) ELSE merged
        added == IF Len(overridesToAdd) > 0
                 THEN mergeIntervals(removed \o overridesToAdd) ELSE removed
    IN  ClipToRange(added, range)

\* localTimeToUtc of helpers.ts: the offset is read at the local date and time
\* taken as a UTC instant (tempDate)
localTimeToUtc(date, localTime, timezone) ==
    LET day == LocalClock(date, timezone) \div 24
        tempDate == day * 24 + localTime
        tzDate == LocalClock(tempDate, timezone)
        offset == tzDate - tempDate
        localTimestamp == day * 24 + localTime
    IN  localTimestamp - offset

(***************************************************************************)
(* helpers.ts: the slot generator                                          *)
(***************************************************************************)
\* ISO week number of an instant (nearest-Thursday rule)
getISOWeek(date) ==
    LET d == date \div 24
        dayNum == IF getUTCDay(d) = 0 THEN 7 ELSE getUTCDay(d)
        thursday == d + 4 - dayNum
        yearStart == JanuaryFirst(getUTCFullYear(thursday))
    IN  ((thursday - yearStart) + 1 + 6) \div 7

getISOWeekYear(date) ==
    LET d == date \div 24
        dayNum == IF getUTCDay(d) = 0 THEN 7 ELSE getUTCDay(d)
    IN  getUTCFullYear(d + 4 - dayNum)

\* 'YYYY-MM-DD' of the instant in UTC, as a day number
getDateKey(date) == date \div 24

\* 'YYYY-Www', as the pair it is printed from
getWeekKey(date) == <<getISOWeekYear(date), getISOWeek(date)>>

\* { ...eventType, ...hostOverride }: a key the override holds wins, whatever
\* its value
resolveHostConfig(eventType, hostId) ==
    IF eventType.hostOverrides = <<>> \/ hostId \notin DOMAIN eventType.hostOverrides[1]
    THEN eventType
    ELSE LET hostOverride == eventType.hostOverrides[1][hostId] IN
         [f \in DOMAIN eventType |->
             IF f \in DOMAIN hostOverride THEN hostOverride[f] ELSE eventType[f]]

\* the configuration values with their defaults (the constants of the host loop)
HostValues(eventType, hostId) ==
    LET cfg == resolveHostConfig(eventType, hostId) IN
    [scheduleKey     |-> OrElse(cfg.scheduleKey, "default"),
     slotLength      |-> cfg.length,
     slotInterval    |-> IF cfg.slotInterval # <<>> THEN cfg.slotInterval ELSE cfg.length,
     bufferBefore    |-> OrElse(cfg.bufferBefore, 0),
     bufferAfter     |-> OrElse(cfg.bufferAfter, 0),
     minimumNotice   |-> OrElse(cfg.minimumNotice, 0),
     maximumLeadTime |-> cfg.maximumLeadTime,
     maxPerDay       |-> cfg.maxPerDay,
     maxPerWeek      |-> cfg.maxPerWeek]

inflateInterval(interval, bufferBefore, bufferAfter) ==
    Interval(interval.start - bufferBefore, interval.end + bufferAfter)

\* input.eventTypes?.[booking.eventTypeId], <<>> when there is none
BookingEventTypeConfig(in, booking) ==
    IF booking.eventTypeId = <<>> \/ in.eventTypes = <<>> THEN <<>>
    ELSE IF booking.eventTypeId[1] \in DOMAIN in.eventTypes[1]
         THEN <<in.eventTypes[1][booking.eventTypeId[1]]>>
    ELSE IF booking.eventTypeId[1] \in ObjectPrototypeKeys
         THEN \* a member every object has: it has neither buffer
              <<[bufferBefore |-> <<>>, bufferAfter |-> <<>>]>>
    ELSE <<>>

\* a booking inflated by the buffers of the event type queried
InflateBooking_QueriedBuffers(in, booking) ==
    inflateInterval(Interval(booking.start, booking.end),
                    OrElse(in.eventType.bufferBefore, 0), OrElse(in.eventType.bufferAfter, 0))

\* a booking inflated by the buffers of its own event type
InflateBooking(in, booking) ==
    LET bookingEventTypeConfig == BookingEventTypeConfig(in, booking)
        bookingBufferBefore ==
            IF bookingEventTypeConfig = <<>> THEN 0
            ELSE OrElse(bookingEventTypeConfig[1].bufferBefore, 0)
        bookingBufferAfter ==
            IF bookingEventTypeConfig = <<>> THEN 0
            ELSE OrElse(bookingEventTypeConfig[1].bufferAfter, 0)
    IN  inflateInterval(Interval(booking.start, booking.end),
                        bookingBufferBefore, bookingBufferAfter)

\* step 2: the busy intervals of a host
BusyIntervals(in, hostId) ==
    LET hostBookings == SelectSeq(in.bookings, LAMBDA b : b.hostId = hostId)
        hostBlocks == SelectSeq(in.blocks, LAMBDA b : b.hostId = hostId)
    IN  [i \in 1..Len(hostBookings) |-> InflateBooking(in, hostBookings[i])]
        \o [i \in 1..Len(hostBlocks) |-> Interval(hostBlocks[i].start, hostBlocks[i].end)]

\* step 3: clip the starts forward to now + minimumNotice
ApplyMinimumNotice_None(intervals, now, minimumNotice) == intervals

ApplyMinimumNotice(intervals, now, minimumNotice) ==
    LET earliestStart == now + minimumNotice IN
    SelectSeq([i \in 1..Len(intervals) |->
                  Interval(Max(intervals[i].start, earliestStart), intervals[i].end)],
              LAMBDA iv : iv.start < iv.end)

\* step 4: clip the ends back to now + maximumLeadTime, when it is set
ApplyMaximumLeadTime(intervals, now, maximumLeadTime) ==
    IF maximumLeadTime = <<>> THEN intervals
    ELSE LET latestEnd == now + maximumLeadTime[1] IN
         SelectSeq([i \in 1..Len(intervals) |->
                       Interval(intervals[i].start, Min(intervals[i].end, latestEnd))],
                   LAMBDA iv : iv.start < iv.end)

\* steps 1 to 4 for a host whose schedule was found
FreeIntervalsOf(in, hostId, values, schedule) ==
    LET expanded == expandSchedule(schedule, in.range)
        busyIntervals == BusyIntervals(in, hostId)
        afterBusy == IF Len(busyIntervals) > 0
                     THEN subtractIntervals(expanded, busyIntervals) ELSE expanded
    IN  ApplyMaximumLeadTime(
            ApplyMinimumNotice(afterBusy, in.now, values.minimumNotice),
            in.now, values.maximumLeadTime)

\* generateCandidateSlots: the condition of the while loop.  An undefined
\* length makes the sum NaN, and a comparison with NaN is false.
LoopCondition_IgnoreBuffer(slotStartNow, slotLength, bufferAfter, intervalEnd) ==
    slotLength # <<>> /\ slotStartNow + slotLength[1] <= intervalEnd

LoopCondition_Strict(slotStartNow, slotLength, bufferAfter, intervalEnd) ==
    slotLength # <<>> /\ slotStartNow + slotLength[1] + bufferAfter < intervalEnd

LoopCondition(slotStartNow, slotLength, bufferAfter, intervalEnd) ==
    slotLength # <<>> /\ slotStartNow + slotLength[1] + bufferAfter <= intervalEnd

\* the slot one turn of the loop pushes
MakeSlot_GridEnd(hostId, slotStartNow, values) ==
    [hostId       |-> hostId,
     start        |-> slotStartNow,
     end          |-> slotStartNow + values.slotInterval[1],
     bufferBefore |-> <<>>,
     bufferAfter  |-> <<>>]

MakeSlot(hostId, slotStartNow, values) ==
    LET slotEnd == slotStartNow + values.slotLength[1] IN
    [hostId       |-> hostId,
     start        |-> slotStartNow,
     end          |-> slotEnd,
     bufferBefore |-> IF values.bufferBefore > 0
                      THEN <<Interval(slotStartNow - values.bufferBefore, slotStartNow)>>
                      ELSE <<>>,
     bufferAfter  |-> IF values.bufferAfter > 0
                      THEN <<Interval(slotEnd, slotEnd + values.bufferAfter)>>
                      ELSE <<>>]

\* a Map read with  ?? 0  and a Map write
MapGet(map, key) == IF key \in DOMAIN map THEN map[key] ELSE 0

MapSet(map, key, value) ==
    [k \in DOMAIN map \cup {key} |-> IF k = key THEN value ELSE map[k]]

\* does booking i count for (hostId, eventTypeId)?
CountsBooking(booking, hostId, eventTypeId) ==
    ~(booking.hostId # hostId \/ booking.eventTypeId # <<eventTypeId>>)

RECURSIVE CountInto(_, _, _, _, _)
CountInto(bookings, i, hostId, eventTypeId, maps) ==
    IF i > Len(bookings) THEN maps
    ELSE IF ~CountsBooking(bookings[i], hostId, eventTypeId)
         THEN CountInto(bookings, i + 1, hostId, eventTypeId, maps)
         ELSE LET dayKey == getDateKey(bookings[i].start)
                  weekKey == getWeekKey(bookings[i].start)
              IN  CountInto(bookings, i + 1, hostId, eventTypeId,
                      [dayCount  |-> MapSet(maps.dayCount, dayKey,
                                            MapGet(maps.dayCount, dayKey) + 1),
                       weekCount |-> MapSet(maps.weekCount, weekKey,
                                            MapGet(maps.weekCount, weekKey) + 1)])

countBookings(bookings, hostId, eventTypeId) ==
    CountInto(bookings, 1, hostId, eventTypeId, [dayCount |-> <<>>, weekCount |-> <<>>])

\* is the cap reached?  (the test before each  continue)
AtCapacity_OffByOne(existing, candidates, cap) == existing + candidates > cap

AtCapacity(existing, candidates, cap) == existing + candidates >= cap

\* step 6, the walk over the candidates: st holds the slots admitted and the
\* two candidate counters
RECURSIVE CapsWalk(_, _, _, _, _)
CapsWalk(candidates, i, counts, values, st) ==
    IF i > Len(candidates) THEN st.admitted
    ELSE LET slot == candidates[i]
             dayKey == getDateKey(slot.start)
             weekKey == getWeekKey(slot.start)
             dayFull == /\ values.maxPerDay # <<>>
                        /\ AtCapacity(MapGet(counts.dayCount, dayKey),
                                      MapGet(st.candidateDayCount, dayKey),
                                      values.maxPerDay[1])
             weekFull == /\ values.maxPerWeek # <<>>
                         /\ AtCapacity(MapGet(counts.weekCount, weekKey),
                                       MapGet(st.candidateWeekCount, weekKey),
                                       values.maxPerWeek[1])
         IN  IF dayFull \/ weekFull
             THEN CapsWalk(candidates, i + 1, counts, values, st)
             ELSE CapsWalk(candidates, i + 1, counts, values,
                      [admitted |-> Append(st.admitted, slot),
                       candidateDayCount |->
                           MapSet(st.candidateDayCount, dayKey,
                                  MapGet(st.candidateDayCount, dayKey) + 1),
                       candidateWeekCount |->
                           MapSet(st.candidateWeekCount, weekKey,
                                  MapGet(st.candidateWeekCount, weekKey) + 1)])

\* step 6: the slots of the host that go to allSlots
ApplyCaps(in, hostId, values, candidates) ==
    IF values.maxPerDay # <<>> \/ values.maxPerWeek # <<>>
    THEN CapsWalk(candidates, 1, countBookings(in.bookings, hostId, in.eventType.id),
                  values,
                  [admitted |-> <<>>, candidateDayCount |-> <<>>,
                   candidateWeekCount |-> <<>>])
    ELSE candidates

\* String.prototype.localeCompare on host ids: their place in the collation
HostCollation == <<"host-1", "host-2">>

CollationIndex(hostId) == CHOOSE i \in 1..Len(HostCollation) : HostCollation[i] = hostId

localeCompare(a, b) == CollationIndex(a) - CollationIndex(b)

\* step 7: the comparator of the final sort
CompareSlots(a, b) ==
    IF a.start - b.start # 0 THEN a.start - b.start ELSE localeCompare(a.hostId, b.hostId)

RECURSIVE InsertSlot(_, _)
InsertSlot(x, s) ==
    IF s = <<>> THEN <<x>>
    ELSE IF CompareSlots(Head(s), x) <= 0 THEN <<Head(s)>> \o InsertSlot(x, Tail(s))
    ELSE <<x>> \o s

RECURSIVE SortSlots(_)
SortSlots(s) ==
    IF s = <<>> THEN <<>>
    ELSE InsertSlot(s[Len(s)], SortSlots(SubSeq(s, 1, Len(s) - 1)))

(***************************************************************************)
(* getAvailableSlots(input, now) as a machine: the loop over the hosts,   *)
(* and inside it the loops of generateCandidateSlots turn by turn.        *)
(***************************************************************************)
CurrentHost == input.hosts[hostIdx]

CurrentValues == HostValues(input.eventType, CurrentHost.hostId)

ScheduleFound == CurrentValues.scheduleKey \in DOMAIN CurrentHost.schedules

\* slotStart as generateCandidateSlots sets it on entering free interval i
FirstSlotStart(intervals, i, values) ==
    IF i <= Len(intervals) THEN intervals[i].start + values.bufferBefore ELSE 0

LogEntry(hostId, values, found, free, candidates, admitted) ==
    [hostId |-> hostId, values |-> values, found |-> found, free |-> free,
     candidates |-> candidates, admitted |-> admitted]

\* if (!schedule) continue
SkipHost ==
    /\ pc = "hosts"
    /\ hostIdx <= Len(input.hosts)
    /\ ~ScheduleFound
    /\ hostIdx' = hostIdx + 1
    /\ hostLog' = Append(hostLog,
                         LogEntry(CurrentHost.hostId, CurrentValues, FALSE,
                                  <<>>, <<>>, <<>>))
    /\ UNCHANGED <<input, pc, result, config, freeIntervals, intervalIdx, slotStart,
                   candidateSlots, allSlots>>
    /\ UNCHANGED policyVars

\* steps 1 to 4, and the entry into generateCandidateSlots
StartHost ==
    /\ pc = "hosts"
    /\ hostIdx <= Len(input.hosts)
    /\ ScheduleFound
    /\ LET free == FreeIntervalsOf(input, CurrentHost.hostId, CurrentValues,
                                   CurrentHost.schedules[CurrentValues.scheduleKey])
       IN  /\ freeIntervals' = free
           /\ slotStart' = FirstSlotStart(free, 1, CurrentValues)
    /\ config' = CurrentValues
    /\ intervalIdx' = 1
    /\ candidateSlots' = <<>>
    /\ pc' = "candidates"
    /\ UNCHANGED <<input, result, hostIdx, allSlots, hostLog>>
    /\ UNCHANGED policyVars

\* one turn of the while loop: push a slot, step by slotInterval
PlaceSlot ==
    /\ pc = "candidates"
    /\ intervalIdx <= Len(freeIntervals)
    /\ LoopCondition(slotStart, config.slotLength, config.bufferAfter,
                     freeIntervals[intervalIdx].end)
    /\ config.slotInterval[1] > 0 \/ Len(candidateSlots) < MaxSpin
    /\ candidateSlots' = Append(candidateSlots,
                                MakeSlot(CurrentHost.hostId, slotStart, config))
    /\ slotStart' = slotStart + config.slotInterval[1]
    /\ UNCHANGED <<input, pc, result, hostIdx, config, freeIntervals, intervalIdx,
                   allSlots, hostLog>>
    /\ UNCHANGED policyVars

\* the while loop ends: on to the next free interval
NextInterval ==
    /\ pc = "candidates"
    /\ intervalIdx <= Len(freeIntervals)
    /\ ~LoopCondition(slotStart, config.slotLength, config.bufferAfter,
                      freeIntervals[intervalIdx].end)
    /\ intervalIdx' = intervalIdx + 1
    /\ slotStart' = FirstSlotStart(freeIntervals, intervalIdx + 1, config)
    /\ UNCHANGED <<input, pc, result, hostIdx, config, freeIntervals, candidateSlots,
                   allSlots, hostLog>>
    /\ UNCHANGED policyVars

\* generateCandidateSlots returns; step 6; on to the next host
FinishHost ==
    /\ pc = "candidates"
    /\ intervalIdx > Len(freeIntervals)
    /\ LET admitted == ApplyCaps(input, CurrentHost.hostId, config, candidateSlots) IN
           /\ allSlots' = allSlots \o admitted
           /\ hostLog' = Append(hostLog,
                                LogEntry(CurrentHost.hostId, config, TRUE,
                                         freeIntervals, candidateSlots, admitted))
    /\ hostIdx' = hostIdx + 1
    /\ pc' = "hosts"
    /\ UNCHANGED <<input, result, config, freeIntervals, intervalIdx, slotStart,
                   candidateSlots>>
    /\ UNCHANGED policyVars

\* step 7: sort and return
SortAndReturn ==
    /\ pc = "hosts"
    /\ hostIdx > Len(input.hosts)
    /\ result' = SortSlots(allSlots)
    /\ pc' = "done"
    /\ UNCHANGED <<input, slotVars, policyVars>>

Next == SkipHost \/ StartHost \/ PlaceSlot \/ NextInterval \/ FinishHost \/ SortAndReturn

(***************************************************************************)
(* The inputs of getAvailableSlots.  The ranges start on Sunday           *)
(* 2024-12-29: a day boundary and an ISO week boundary follow at once.    *)
(***************************************************************************)
AllDays == {DAY_INDEX_TO_NAME[i] : i \in 1..7}

MkRule(days, startTime, endTime, timezone, effectiveFrom, effectiveUntil) ==
    [days |-> days, startTime |-> startTime, endTime |-> endTime,
     timezone |-> timezone, effectiveFrom |-> effectiveFrom,
     effectiveUntil |-> effectiveUntil]

\* a schedule open every day from startTime to endTime, UTC
DailyUtc(id, startTime, endTime) ==
    [id |-> id,
     rules |-> <<MkRule(AllDays, startTime, endTime, "UTC", <<>>, <<>>)>>,
     overrides |-> <<>>]

Host1 ==
    [hostId |-> "host-1",
     schedules |-> [k \in {"default"} |-> DailyUtc(k, 9, 13)]]

Host2 ==
    [hostId |-> "host-2",
     schedules |-> [k \in {"default", "telehealth"} |->
                       IF k = "default" THEN DailyUtc(k, 10, 12) ELSE DailyUtc(k, 11, 13)]]

MkBooking(hostId, start, end, eventTypeId) ==
    [hostId |-> hostId, start |-> start, end |-> end, eventTypeId |-> eventTypeId]

BookingOwn == MkBooking("host-1", 10, 11, <<"consult">>)
BookingOwnLate == MkBooking("host-1", 12, 13, <<"consult">>)
BookingOwnMonday == MkBooking("host-1", 34, 35, <<"consult">>)
BookingOther == MkBooking("host-1", 34, 35, <<"intake">>)
BookingPlain == MkBooking("host-1", 11, 12, <<>>)
BookingHost2 == MkBooking("host-2", 10, 11, <<"consult">>)
BookingInherited == MkBooking("host-1", 36, 37, <<"constructor">>)

BlockMonday == [hostId |-> "host-1", start |-> 35, end |-> 36]

\* the buffer table keyed by event type id
BufferTable ==
    [k \in {"intake", "consult"} |->
        IF k = "intake" THEN [bufferBefore |-> <<>>, bufferAfter |-> <<1>>]
        ELSE [bufferBefore |-> <<1>>, bufferAfter |-> <<>>]]

MkEventType(len, si, bb, ba, notice, lead, perDay, perWeek, key, overrides) ==
    [id |-> "consult", length |-> <<len>>, scheduleKey |-> key,
     slotInterval |-> si, bufferBefore |-> bb, bufferAfter |-> ba,
     minimumNotice |-> notice, maximumLeadTime |-> lead, maxPerDay |-> perDay,
     maxPerWeek |-> perWeek, hostOverrides |-> overrides]

\* Sunday 2024-12-29 and Monday 2024-12-30
TwoDays == [start |-> 0, end |-> 48]

\* Sunday to Tuesday: Monday and Tuesday share ISO week 2025-W01
ThreeDays == [start |-> 0, end |-> 72]

MkInput(eventType, hosts, bookings, blocks, eventTypes, range, now) ==
    [eventType |-> eventType, hosts |-> hosts, bookings |-> bookings,
     blocks |-> blocks, range |-> range, eventTypes |-> eventTypes, now |-> now]

\* one host, no caps: the grid, the buffers, notice and lead time, busy time
GridInputs ==
    {MkInput(MkEventType(len, si, bb, ba, notice, lead, <<>>, <<>>, <<>>, <<>>),
             <<Host1>>, bookings, blocks, eventTypes, TwoDays, now) :
        len \in {1, 2}, si \in {<<>>, <<1>>}, bb \in {<<>>, <<1>>},
        ba \in {<<>>, <<1>>}, notice \in {<<>>, <<1>>}, lead \in {<<>>, <<25>>, <<36>>},
        now \in {0, 10},
        bookings \in {<<>>, <<BookingOwn>>, <<BookingOther>>,
                      <<BookingPlain, BookingOther>>, <<BookingOther, BookingInherited>>},
        blocks \in {<<>>, <<BlockMonday>>},
        eventTypes \in {<<>>, <<BufferTable>>}}

\* the caps, with bookings of the queried type, of another type and of none
CapInputs ==
    {MkInput(MkEventType(1, si, <<>>, <<>>, <<>>, <<>>, maxPerDay, maxPerWeek, <<>>,
                         hostOverrides),
             hosts, bookings, blocks, <<>>, ThreeDays, 0) :
        si \in {<<>>, <<2>>}, maxPerDay \in {<<>>, <<1>>, <<2>>},
        maxPerWeek \in {<<>>, <<1>>, <<3>>},
        hostOverrides \in {<<>>, <<[h \in {"host-2"} |-> [maxPerDay |-> <<1>>]]>>},
        hosts \in {<<Host1>>, <<Host2, Host1>>},
        bookings \in {<<>>, <<BookingOwn>>, <<BookingOwn, BookingOwnLate>>,
                      <<BookingOwn, BookingOwnMonday>>, <<BookingPlain, BookingOther>>,
                      <<BookingHost2, BookingOwnMonday>>},
        blocks \in {<<>>, <<BlockMonday>>}}

\* several hosts, schedule keys, per-host overrides
HostInputs ==
    {MkInput(MkEventType(len, <<>>, <<>>, <<>>, <<>>, <<>>, <<>>, <<>>, scheduleKey,
                         hostOverrides),
             hosts, bookings, <<>>, <<>>, TwoDays, now) :
        len \in {1, 2}, scheduleKey \in {<<>>, <<"telehealth">>},
        hostOverrides \in
            {<<>>,
             <<[h \in {"host-2"} |-> [length |-> <<2>>]]>>,
             <<[h \in {"host-1"} |-> [bufferAfter |-> <<1>>, slotInterval |-> <<2>>]]>>,
             <<[h \in {"host-2"} |-> [scheduleKey |-> <<"telehealth">>]]>>,
             <<[h \in {"host-1", "host-2"} |->
                   IF h = "host-1" THEN [length |-> <<2>>]
                   ELSE [minimumNotice |-> <<3>>]]>>},
        hosts \in {<<Host1, Host2>>, <<Host2, Host1>>, <<Host2>>},
        bookings \in {<<>>, <<BookingHost2>>},
        now \in {0, 10}}

\* lengths and grids that are zero or negative
NonPositiveInputs ==
    {MkInput(MkEventType(len, si, bb, ba, <<>>, <<>>, <<>>, <<>>, <<>>, <<>>),
             <<Host1>>, bookings, <<>>, <<>>, TwoDays, 0) :
        len \in {0 - 1, 0, 1}, si \in {<<>>, <<0 - 1>>, <<0>>, <<1>>},
        bb \in {<<>>, <<1>>}, ba \in {<<>>, <<1>>},
        bookings \in {<<>>, <<BookingOwn>>}}

\* overrides that hold a key with the value undefined, over a base that sets it
UndefinedOverrideInputs ==
    {MkInput(MkEventType(1, si, <<>>, ba, notice, <<>>, maxPerDay, <<>>, <<>>,
                         <<hostOverrides>>),
             <<Host1, Host2>>, <<>>, <<>>, <<>>, TwoDays, 0) :
        si \in {<<>>, <<2>>}, ba \in {<<>>, <<1>>}, notice \in {<<>>, <<10>>},
        maxPerDay \in {<<>>, <<1>>},
        hostOverrides \in
            {[h \in {"host-1"} |-> [bufferAfter |-> <<>>]],
             [h \in {"host-1"} |-> [slotInterval |-> <<>>, minimumNotice |-> <<>>]],
             [h \in {"host-2"} |-> [maxPerDay |-> <<>>, bufferAfter |-> <<2>>]]}}

SlotInputs ==
    GridInputs \cup CapInputs \cup HostInputs \cup NonPositiveInputs
    \cup UndefinedOverrideInputs

Init ==
    /\ input \in SlotInputs
    /\ pc = "hosts"
    /\ result = <<>>
    /\ hostIdx = 1
    /\ config = <<>>
    /\ freeIntervals = <<>>
    /\ intervalIdx = 0
    /\ slotStart = 0
    /\ candidateSlots = <<>>
    /\ allSlots = <<>>
    /\ hostLog = <<>>
    /\ PolicyIdle

Spec == Init /\ [][Next]_vars

(***************************************************************************)
(* Interval arithmetic as calls.  The caller holds a list X; it calls     *)
(* mergeIntervals on X followed by a list Y of at most one interval, or   *)
(* subtractIntervals on (X, Y) with Y any list of at most two.            *)
(***************************************************************************)
Instants == 0..MaxInstant

\* every interval over the instants: empty and inverted ones included
AnyInterval == {Interval(a, b) : a \in Instants, b \in Instants}

ShortLists == {<<>>} \cup {<<a>> : a \in AnyInterval}

IntervalLists == ShortLists \cup {<<a, b>> : a \in AnyInterval, b \in AnyInterval}

InitIntervals ==
    /\ input \in {[X |-> x] : x \in IntervalLists}
    /\ pc = "intervals"
    /\ result = <<>>
    /\ hostIdx = 0
    /\ config = <<>>
    /\ freeIntervals = <<>>
    /\ intervalIdx = 0
    /\ slotStart = 0
    /\ candidateSlots = <<>>
    /\ allSlots = <<>>
    /\ hostLog = <<>>
    /\ PolicyIdle

CallMerge ==
    /\ pc = "intervals"
    /\ \E y \in ShortLists :
           /\ input' = [X |-> input.X, Y |-> y]
           /\ result' = mergeIntervals(input.X \o y)
    /\ pc' = "merged"
    /\ UNCHANGED <<slotVars, policyVars>>

CallSubtract ==
    /\ pc = "intervals"
    /\ \E y \in IntervalLists :
           /\ input' = [X |-> input.X, Y |-> y]
           /\ result' = subtractIntervals(input.X, y)
    /\ pc' = "subtracted"
    /\ UNCHANGED <<slotVars, policyVars>>

NextIntervals == CallMerge \/ CallSubtract

SpecIntervals == InitIntervals /\ [][NextIntervals]_vars

(***************************************************************************)
(* Coverage: the instants a list of half-open intervals covers.  An       *)
(* instant t stands for the hour [t, t+1).                                 *)
(***************************************************************************)
Covers(iv, t) == iv.start <= t /\ t < iv.end

Covered(list, t) == \E i \in 1..Len(list) : Covers(list[i], t)

\* sorted by start, every interval non-empty, a positive gap between neighbours
StrictlySeparated(list) ==
    /\ \A i \in 1..Len(list) : list[i].start < list[i].end
    /\ \A i \in 1..(Len(list) - 1) : list[i].end < list[i + 1].start

\* sorted by start, every interval non-empty, no two sharing an instant
SortedDisjoint(list) ==
    /\ \A i \in 1..Len(list) : list[i].start < list[i].end
    /\ \A i \in 1..(Len(list) - 1) : list[i].end <= list[i + 1].start

\* C8: mergeIntervals(X) holds only non-empty intervals, sorted strictly by
\* start with a positive gap between consecutive outputs (touching inputs are
\* fused), covers exactly the instants the non-empty intervals of X cover, and
\* merging it again changes nothing.
C8_MergeNormalForm ==
    pc = "merged" =>
        /\ StrictlySeparated(result)
        /\ \A t \in Instants : Covered(result, t) <=> Covered(input.X \o input.Y, t)
        /\ mergeIntervals(result) = result

C8_Witness ==
    /\ pc = "merged"
    /\ input.X = <<Interval(2, 3), Interval(3, 1)>>
    /\ input.Y = <<Interval(0, 2)>>
    /\ result = <<Interval(0, 3)>>

\* C9: subtractIntervals(X, Y) covers exactly the instants of X that Y does not
\* cover, is sorted by start and pairwise disjoint; a Y interval that only
\* touches an X interval removes nothing; subtractIntervals(X, <<>>) is
\* mergeIntervals(X) and subtractIntervals(X, X) is empty.
C9_SubtractIsDifference ==
    pc = "subtracted" =>
        /\ SortedDisjoint(result)
        /\ \A t \in Instants :
               Covered(result, t) <=> (Covered(input.X, t) /\ ~Covered(input.Y, t))
        /\ (\A i \in 1..Len(input.X), j \in 1..Len(input.Y) :
                ~intervalsOverlap(input.X[i], input.Y[j]))
               => result = mergeIntervals(input.X)
        /\ input.Y = <<>> => result = mergeIntervals(input.X)
        /\ input.Y = input.X => result = <<>>

C9_Witness ==
    /\ pc = "subtracted"
    /\ input.X = <<Interval(0, 3)>>
    /\ input.Y = <<Interval(1, 2)>>
    /\ result = <<Interval(0, 1), Interval(2, 3)>>

(***************************************************************************)
(* What getAvailableSlots returned, host by host, against the free time   *)
(* of the host stated instant by instant.                                 *)
(***************************************************************************)
Returned == pc = "done"

HostIndexes == 1..Len(input.hosts)

ValuesOf(i) == HostValues(input.eventType, input.hosts[i].hostId)

\* the slots of the returned list that belong to host i, in returned order
ReturnedFor(i) == SelectSeq(result, LAMBDA s : s.hostId = input.hosts[i].hostId)

RangeInstants == input.range.start..(input.range.end - 1)

\* the instants of the range at which host i is free
FreeInstants(i) ==
    LET host == input.hosts[i]
        values == ValuesOf(i)
        expanded == IF values.scheduleKey \in DOMAIN host.schedules
                    THEN expandSchedule(host.schedules[values.scheduleKey], input.range)
                    ELSE <<>>
    IN  {t \in RangeInstants :
            /\ Covered(expanded, t)
            /\ \A b \in Range(input.bookings) :
                   b.hostId = host.hostId => ~Covers(InflateBooking(input, b), t)
            /\ \A b \in Range(input.blocks) :
                   b.hostId = host.hostId => ~Covers(Interval(b.start, b.end), t)
            /\ t >= input.now + values.minimumNotice
            /\ values.maximumLeadTime # <<>> =>
                   t < input.now + values.maximumLeadTime[1]}

\* the free intervals of host i: the maximal runs of free instants
FreeRuns(i) ==
    LET free == FreeInstants(i) IN
    {Interval(a, b + 1) : <<a, b>> \in
        {<<a, b>> \in free \X free :
            /\ a <= b
            /\ \A t \in a..b : t \in free
            /\ (a - 1) \notin free
            /\ (b + 1) \notin free}}

GridStarts(F, values) ==
    {start \in {F.start + values.bufferBefore + k * values.slotInterval[1] :
                    k \in 0..(input.range.end - input.range.start)} :
        start + values.slotLength[1] + values.bufferAfter <= F.end}

UtcDayOf(t) == t \div 24

IsoWeekOf(t) == (UtcDayOf(t) + 6) \div 7

\* the bookings of host i that are of the queried event type
OwnBookings(i) ==
    {k \in 1..Len(input.bookings) :
        /\ input.bookings[k].hostId = input.hosts[i].hostId
        /\ input.bookings[k].eventTypeId = <<input.eventType.id>>}

C4_SlotsWithinNoticeAndLeadTime ==
    Returned =>
        \A i \in HostIndexes :
            LET values == ValuesOf(i) IN
            \A s \in Range(ReturnedFor(i)) :
                /\ s.start >= input.now + values.minimumNotice
                /\ values.maximumLeadTime # <<>> =>
                       s.end <= input.now + values.maximumLeadTime[1]

\* now = 10:00 Sunday, one hour of notice, 25 hours of lead time: the first
\* slot starts at 11:00 and the last one ends at 11:00 on Monday
C4_Witness ==
    /\ Returned
    /\ input.now = 10
    /\ input.eventType.minimumNotice = <<1>>
    /\ input.eventType.maximumLeadTime = <<25>>
    /\ input.bookings = <<>>
    /\ Len(result) > 0
    /\ result[1].start = 11
    /\ result[Len(result)].end = 35

C6_SortedWithoutDuplicates ==
    Returned =>
        /\ \A i \in 1..(Len(result) - 1) :
               \/ result[i].start < result[i + 1].start
               \/ /\ result[i].start = result[i + 1].start
                  /\ CollationIndex(result[i].hostId) <= CollationIndex(result[i + 1].hostId)
        /\ \A i \in 1..Len(result), j \in 1..Len(result) :
               (i # j /\ result[i].hostId = result[j].hostId) =>
                   result[i].start # result[j].start

\* C7: getAvailableSlots always returns: a host whose schedule key is unknown
\* contributes no slots, every turn of the candidate loop moves slotStart
\* forward, and a resolved length or slotInterval that is zero or negative
\* yields no slots.
C7_AlwaysReturnsDroppingNonPositive ==
    /\ \A i \in 1..Len(hostLog) : ~hostLog[i].found => hostLog[i].admitted = <<>>
    /\ pc = "candidates" =>
           /\ candidateSlots # <<>> =>
                  slotStart > candidateSlots[Len(candidateSlots)].start
           /\ (config.slotLength[1] <= 0 \/ config.slotInterval[1] <= 0) =>
                  candidateSlots = <<>>

(***************************************************************************)
(* Schedule expansion as a call: expandSchedule(schedule, range).         *)
(***************************************************************************)
RuleTimes == {<<9, 17>>, <<0, 8>>, <<17, 9>>, <<20, 23>>}

Rules ==
    {MkRule(days, times[1], times[2], timezone, effectiveFrom, effectiveUntil) :
        days \in {AllDays, {"monday"}, {"sunday"}}, times \in RuleTimes,
        timezone \in TimeZones, effectiveFrom \in {<<>>, <<24>>},
        effectiveUntil \in {<<>>, <<48>>}}

\* Monday 2024-12-30 closed
OverrideClosedMonday ==
    [date |-> 24, available |-> FALSE, startTime |-> <<>>, endTime |-> <<>>]

\* Monday 2024-12-30 closed from 10:00 to 12:00
OverrideClosedMondayHours ==
    [date |-> 24, available |-> FALSE, startTime |-> <<10>>, endTime |-> <<12>>]

\* Monday 2024-12-30 open from 18:00 to 20:00
OverrideOpenMondayHours ==
    [date |-> 24, available |-> TRUE, startTime |-> <<18>>, endTime |-> <<20>>]

\* Monday 2024-12-30 available, no times
OverrideOpenMonday ==
    [date |-> 24, available |-> TRUE, startTime |-> <<>>, endTime |-> <<>>]

Overrides ==
    {OverrideClosedMonday, OverrideClosedMondayHours, OverrideOpenMondayHours,
     OverrideOpenMonday}

Schedules ==
    {[id |-> "default", rules |-> rules, overrides |-> overrides] :
        rules \in {<<>>} \cup {<<r>> : r \in Rules},
        overrides \in {<<>>} \cup {<<o>> : o \in Overrides}}

Ranges == {Interval(0, 24), Interval(0, 48), Interval(24, 72), Interval(20, 50)}

InitSchedule ==
    /\ input \in {[schedule |-> schedule] : schedule \in Schedules}
    /\ pc = "schedule"
    /\ result = <<>>
    /\ hostIdx = 0
    /\ config = <<>>
    /\ freeIntervals = <<>>
    /\ intervalIdx = 0
    /\ slotStart = 0
    /\ candidateSlots = <<>>
    /\ allSlots = <<>>
    /\ hostLog = <<>>
    /\ PolicyIdle

CallExpandSchedule ==
    /\ pc = "schedule"
    /\ \E range \in Ranges :
           /\ input' = [schedule |-> input.schedule, range |-> range]
           /\ result' = expandSchedule(input.schedule, range)
    /\ pc' = "expanded"
    /\ UNCHANGED <<slotVars, policyVars>>

NextSchedule == CallExpandSchedule

SpecSchedule == InitSchedule /\ [][NextSchedule]_vars

\* rule r applied to instant t: the local day of t in the rule's zone has its
\* weekday in r.days and lies in [effectiveFrom, effectiveUntil), and the local
\* time of t lies in [r.startTime, r.endTime)
RuleAppliesAt(rule, t) ==
    LET local == LocalClock(t, rule.timezone)
        d == local \div 24
        time == local % 24
    IN  /\ DAY_INDEX_TO_NAME[(d % 7) + 1] \in rule.days
        /\ rule.effectiveFrom # <<>> => d >= rule.effectiveFrom[1] \div 24
        /\ rule.effectiveUntil # <<>> => d < rule.effectiveUntil[1] \div 24
        /\ rule.startTime <= time
        /\ time < rule.endTime

\* C10: without overrides, expandSchedule(schedule, range) covers an instant t
\* iff t is in the range and some rule applies at t; no in-range availability
\* of any local day is omitted and nothing outside the range is returned.
C10_ExpansionCoversExactlyRuleTime ==
    (pc = "expanded" /\ input.schedule.overrides = <<>>) =>
        \A t \in (input.range.start - 24)..(input.range.end + 24) :
            Covered(result, t) <=>
                /\ input.range.start <= t
                /\ t < input.range.end
                /\ \E r \in Range(input.schedule.rules) : RuleAppliesAt(r, t)

\* the zone overrides are read in: the first rule's zone, UTC without rules
PrimaryZone(schedule) ==
    IF Len(schedule.rules) > 0 THEN schedule.rules[1].timezone ELSE "UTC"

\* instant t falls on civil date D of the zone
OnLocalDate(t, D, timezone) == LocalClock(t, timezone) \div 24 = D

\* instant t falls in the window [D startTime, D endTime) of the zone's local time
InLocalWindow(t, D, startTime, endTime, timezone) ==
    /\ OnLocalDate(t, D, timezone)
    /\ startTime <= LocalClock(t, timezone) % 24
    /\ LocalClock(t, timezone) % 24 < endTime

\* C11: an override for civil date D acts on date D of the primary zone: with
\* times it removes (available = false) or adds (available = true) exactly the
\* window [D startTime, D endTime) of the zone's local time; available = false
\* without times removes the availability of local date D and of no other
\* date; available = true without times changes nothing.
C11_OverrideActsOnItsLocalDate ==
    (pc = "expanded" /\ Len(input.schedule.overrides) = 1) =>
        LET override == input.schedule.overrides[1]
            zone == PrimaryZone(input.schedule)
            D == override.date \div 24
            timed == override.startTime # <<>> /\ override.endTime # <<>>
            base == expandSchedule([input.schedule EXCEPT !.overrides = <<>>],
                                   input.range)
            window(t) == InLocalWindow(t, D, override.startTime[1],
                                       override.endTime[1], zone)
        IN  \A t \in input.range.start..(input.range.end - 1) :
                Covered(result, t) <=>
                    CASE ~override.available /\ timed -> Covered(base, t) /\ ~window(t)
                      [] ~override.available /\ ~timed ->
                             Covered(base, t) /\ ~OnLocalDate(t, D, zone)
                      [] override.available /\ timed -> Covered(base, t) \/ window(t)
                      [] OTHER -> Covered(base, t)

(***************************************************************************)
(* The local-to-UTC conversion as a call: localTimeToUTC of schedule.ts    *)
(* (expandSchedule) and localTimeToUtc of helpers.ts (expandRecurrence).   *)
(* The days are those around the four transitions of 2025, and day 0.      *)
(***************************************************************************)
ConvertDays == {0, 69, 70, 71, 90, 91, 92, 300, 301, 302, 307, 308, 309}

LocalTimes == 0..23

InitConvert ==
    /\ input \in {[date |-> d * 24, time |-> time, timezone |-> timezone] :
                     d \in ConvertDays, time \in LocalTimes, timezone \in TimeZones}
    /\ pc = "convert"
    /\ result = <<>>
    /\ hostIdx = 0
    /\ config = <<>>
    /\ freeIntervals = <<>>
    /\ intervalIdx = 0
    /\ slotStart = 0
    /\ candidateSlots = <<>>
    /\ allSlots = <<>>
    /\ hostLog = <<>>
    /\ PolicyIdle

CallLocalTimeToUTC ==
    /\ pc = "convert"
    /\ result' = localTimeToUTC(input.date, input.time, input.timezone)
    /\ pc' = "scheduleEdge"
    /\ UNCHANGED <<input, slotVars, policyVars>>

CallLocalTimeToUtc ==
    /\ pc = "convert"
    /\ result' = localTimeToUtc(input.date, input.time, input.timezone)
    /\ pc' = "recurrenceEdge"
    /\ UNCHANGED <<input, slotVars, policyVars>>

NextConvert == CallLocalTimeToUTC \/ CallLocalTimeToUtc

SpecConvert == InitConvert /\ [][NextConvert]_vars

\* the local date and time asked for, as a wall-clock reading: the civil date
\* of input.date in the zone, at input.time
TargetLocal == getDateStringInTimezone(input.date, input.timezone) * 24 + input.time

\* the instants whose wall clock in the zone reads TargetLocal
TargetInstants ==
    {u \in (TargetLocal - MaxUtcOffset)..(TargetLocal + MaxUtcOffset) :
        LocalClock(u, input.timezone) = TargetLocal}

\* the first instant whose wall clock in the zone reads later than TargetLocal
FirstInstantAfter ==
    CHOOSE u \in (TargetLocal - MaxUtcOffset)..(TargetLocal + MaxUtcOffset) :
        /\ LocalClock(u, input.timezone) > TargetLocal
        /\ LocalClock(u - 1, input.timezone) < TargetLocal

\* C12: for a local date and time that occurs exactly once in the zone, both
\* conversions return the one instant whose local date and time are those,
\* on days with a transition too.
C12_ConversionFindsTheUniqueInstant ==
    (pc \in {"scheduleEdge", "recurrenceEdge"} /\ Cardinality(TargetInstants) = 1) =>
        result \in TargetInstants

\* C13: in schedule expansion's conversion, a local time inside a fall-back
\* overlap gives the instant with the later offset, a local time inside a
\* spring-forward gap gives the instant immediately after the gap, east and
\* west of UTC alike.
C13_OverlapLaterGapAfter ==
    pc = "scheduleEdge" =>
        /\ Cardinality(TargetInstants) = 2 =>
               result = CHOOSE u \in TargetInstants : \A v \in TargetInstants : v <= u
        /\ TargetInstants = {} => result = FirstInstantAfter

(***************************************************************************)
(* The policy engine: topologicalSort, loadFacts, evaluateRules,           *)
(* collectObligations, evaluate and the resolution strategies.             *)
(* policy.facts is the sequence of its entries in key order, each          *)
(* [key, depends, load]; a rule is [id, evaluate], evaluate being what the *)
(* rule returns or throws.                                                 *)
(***************************************************************************)
\* Object.keys(facts)
ObjectKeys(factDefs) == [i \in 1..Len(factDefs) |-> factDefs[i].key]

\* facts[name]: the own entry, else the inherited member, else undefined (<<>>)
Lookup(factDefs, name) ==
    IF \E i \in 1..Len(factDefs) : factDefs[i].key = name
    THEN <<factDefs[CHOOSE i \in 1..Len(factDefs) : factDefs[i].key = name]>>
    ELSE IF name \in ObjectPrototypeKeys
         THEN <<[key |-> name, depends |-> <<>>, load |-> <<>>]>>
         ELSE <<>>

CircularError(name) ==
    [name |-> "Error",
     message |-> <<"Circular dependency detected involving fact: ", name>>]

UnknownFactError(name, dep) ==
    [name |-> "Error",
     message |-> <<"Fact \"", name, "\" depends on unknown fact \"", dep, "\"">>]

\* visit(name) of topologicalSort, and its loop over fact.depends; st holds
\* result, visited, visiting and the error thrown (<<>> while none is)
RECURSIVE visit(_, _, _)
RECURSIVE VisitDepends(_, _, _, _, _)
visit(factDefs, name, st) ==
    IF st.error # <<>> \/ name \in st.visited THEN st
    ELSE IF name \in st.visiting THEN [st EXCEPT !.error = <<CircularError(name)>>]
    ELSE LET fact == Lookup(factDefs, name)
             depends == IF fact = <<>> THEN <<>> ELSE fact[1].depends
             entered == [st EXCEPT !.visiting = st.visiting \cup {name}]
             after == IF depends = <<>> THEN entered
                      ELSE VisitDepends(factDefs, name, depends[1], 1, entered)
         IN  IF after.error # <<>> THEN after
             ELSE [result |-> Append(after.result, name),
                   visited |-> after.visited \cup {name},
                   visiting |-> after.visiting \ {name},
                   error |-> <<>>]

\* the dependencies are checked but not visited first
VisitDepends_Unvisited(factDefs, name, depends, i, st) == st

VisitDepends(factDefs, name, depends, i, st) ==
    IF st.error # <<>> \/ i > Len(depends) THEN st
    ELSE IF Lookup(factDefs, depends[i]) = <<>>
         THEN [st EXCEPT !.error = <<UnknownFactError(name, depends[i])>>]
         ELSE VisitDepends(factDefs, name, depends, i + 1,
                           visit(factDefs, depends[i], st))

RECURSIVE VisitKeys(_, _, _)
VisitKeys(factDefs, i, st) ==
    IF st.error # <<>> \/ i > Len(factDefs) THEN st
    ELSE VisitKeys(factDefs, i + 1, visit(factDefs, ObjectKeys(factDefs)[i], st))

\* [result, error]: the order returned, or the error thrown
topologicalSort(factDefs) ==
    VisitKeys(factDefs, 1,
              [result |-> <<>>, visited |-> {}, visiting |-> {}, error |-> <<>>])

\* the obligations of every result, whatever its outcome
RECURSIVE collectObligations_AnyOutcome(_)
collectObligations_AnyOutcome(ruleResults) ==
    IF ruleResults = <<>> THEN <<>>
    ELSE (IF Head(ruleResults).obligations # <<>>
          THEN Head(ruleResults).obligations[1] ELSE <<>>)
         \o collectObligations_AnyOutcome(Tail(ruleResults))

\* collectObligations(results)
RECURSIVE collectObligations(_)
collectObligations(ruleResults) ==
    IF ruleResults = <<>> THEN <<>>
    ELSE (IF Head(ruleResults).outcome = "allow" /\ Head(ruleResults).obligations # <<>>
          THEN Head(ruleResults).obligations[1] ELSE <<>>)
         \o collectObligations(Tail(ruleResults))

resolveAllMustAllow(ruleResults) ==
    [allowed |-> ~(\E i \in 1..Len(ruleResults) : ruleResults[i].outcome = "deny")]

resolveAnyMustAllow(ruleResults) ==
    [allowed |-> \E i \in 1..Len(ruleResults) : ruleResults[i].outcome = "allow"]

\* the resolver createWeightedResolver(weights) returns: the loop of score += 1
RECURSIVE WeightedScore(_, _, _)
WeightedScore(weights, ruleResults, i) ==
    IF i > Len(ruleResults) THEN 0
    ELSE (IF ruleResults[i].outcome = "allow" THEN 1 ELSE 0)
         + WeightedScore(weights, ruleResults, i + 1)

createWeightedResolver(weights, ruleResults) ==
    [score |-> WeightedScore(weights, ruleResults, 1)]

(***************************************************************************)
(* evaluate(policy, input) as a machine: one step per await.               *)
(***************************************************************************)
\* what a loader that throws is made to throw, and what a rule is
LoaderError(name) == [name |-> "LoaderError", message |-> <<name>>]

RuleError(id) == [name |-> "RuleError", message |-> <<id>>]

\* def.load is not a function
NotAFunctionError == [name |-> "TypeError", message |-> <<"def.load is not a function">>]

\* one invocation, with the keys the loaded-facts map held when it was made
Call(kind, name) == [kind |-> kind, name |-> name, loaded |-> DOMAIN facts]

\* policy.resolve(results, input, facts)
Resolve(policy, ruleResults) ==
    CASE policy.resolve = "resolveAllMustAllow" -> resolveAllMustAllow(ruleResults)
      [] policy.resolve = "resolveAnyMustAllow" -> resolveAnyMustAllow(ruleResults)
      [] policy.resolve = "createWeightedResolver" ->
             createWeightedResolver(policy.weights, ruleResults)

\* loadFacts: const order = topologicalSort(factDefs)
SortFacts ==
    /\ pc = "evaluate"
    /\ LET sorted == topologicalSort(input.policy.facts) IN
           IF sorted.error # <<>>
           THEN /\ error' = sorted.error
                /\ pc' = "rejected"
                /\ UNCHANGED <<order, loadIdx>>
           ELSE /\ order' = sorted.result
                /\ loadIdx' = 1
                /\ pc' = "loadFacts"
                /\ UNCHANGED error
    /\ UNCHANGED <<input, result, slotVars, heap, facts, loading, ruleIdx, results, reasons,
                   outcome, calls>>

\* def.load(input, facts) is called
CallLoader ==
    /\ pc = "loadFacts"
    /\ loading = <<>>
    /\ loadIdx <= Len(order)
    /\ Lookup(input.policy.facts, order[loadIdx])[1].load # <<>>
    /\ loading' = <<order[loadIdx]>>
    /\ calls' = Append(calls, Call("load", order[loadIdx]))
    /\ UNCHANGED <<input, pc, result, slotVars, heap, order, facts, loadIdx, ruleIdx, results,
                   reasons, outcome, error>>

\* def.load is undefined: the call itself throws
CallMissingLoader ==
    /\ pc = "loadFacts"
    /\ loading = <<>>
    /\ loadIdx <= Len(order)
    /\ Lookup(input.policy.facts, order[loadIdx])[1].load = <<>>
    /\ error' = <<NotAFunctionError>>
    /\ pc' = "rejected"
    /\ UNCHANGED <<input, result, slotVars, heap, order, facts, loading, loadIdx, ruleIdx,
                   results, reasons, outcome, calls>>

\* the awaited loader resolves: facts[name] = its value
LoaderReturns ==
    /\ pc = "loadFacts"
    /\ loading # <<>>
    /\ Lookup(input.policy.facts, loading[1])[1].load = <<"returns">>
    /\ facts' = MapSet(facts, loading[1], [loadedBy |-> loading[1]])
    /\ loading' = <<>>
    /\ loadIdx' = loadIdx + 1
    /\ UNCHANGED <<input, pc, result, slotVars, heap, order, ruleIdx, results, reasons,
                   outcome, error, calls>>

\* the rejection caught and the loop going on
LoaderThrows_Swallowed ==
    /\ pc = "loadFacts"
    /\ loading # <<>>
    /\ Lookup(input.policy.facts, loading[1])[1].load = <<"throws">>
    /\ loading' = <<>>
    /\ loadIdx' = loadIdx + 1
    /\ UNCHANGED <<input, pc, result, slotVars, heap, order, facts, ruleIdx, results, reasons,
                   outcome, error, calls>>

\* the awaited loader rejects
LoaderThrows ==
    /\ pc = "loadFacts"
    /\ loading # <<>>
    /\ Lookup(input.policy.facts, loading[1])[1].load = <<"throws">>
    /\ error' = <<LoaderError(loading[1])>>
    /\ loading' = <<>>
    /\ pc' = "rejected"
    /\ UNCHANGED <<input, result, slotVars, heap, order, facts, loadIdx, ruleIdx, results,
                   reasons, outcome, calls>>

\* loadFacts returns facts; evaluateRules begins
FactsLoaded ==
    /\ pc = "loadFacts"
    /\ loading = <<>>
    /\ loadIdx > Len(order)
    /\ ruleIdx' = 1
    /\ pc' = "evaluateRules"
    /\ UNCHANGED <<input, result, slotVars, heap, order, facts, loading, loadIdx, results,
                   reasons, outcome, error, calls>>

\* the loop leaving at the first deny
EvaluateRule_StopsAtDeny ==
    /\ pc = "evaluateRules"
    /\ ruleIdx <= Len(input.policy.rules)
    /\ ~input.policy.rules[ruleIdx].evaluate.throws
    /\ LET rule == input.policy.rules[ruleIdx]
           ruleResult == rule.evaluate.result
       IN  /\ calls' = Append(calls, Call("rule", rule.id))
           /\ results' = Append(results, ruleResult)
           /\ reasons' = Append(reasons, [rule |-> rule.id,
                                          outcome |-> ruleResult.outcome,
                                          explanation |-> ruleResult.explanation])
           /\ ruleIdx' = IF ruleResult.outcome = "deny"
                         THEN Len(input.policy.rules) + 1 ELSE ruleIdx + 1
    /\ UNCHANGED <<input, pc, result, slotVars, heap, order, facts, loading, loadIdx, outcome,
                   error>>

\* one turn of the loop of evaluateRules, the rule returning its result
EvaluateRule ==
    /\ pc = "evaluateRules"
    /\ ruleIdx <= Len(input.policy.rules)
    /\ ~input.policy.rules[ruleIdx].evaluate.throws
    /\ LET rule == input.policy.rules[ruleIdx]
           ruleResult == rule.evaluate.result
       IN  /\ calls' = Append(calls, Call("rule", rule.id))
           /\ results' = Append(results, ruleResult)
           /\ reasons' = Append(reasons, [rule |-> rule.id,
                                          outcome |-> ruleResult.outcome,
                                          explanation |-> ruleResult.explanation])
    /\ ruleIdx' = ruleIdx + 1
    /\ UNCHANGED <<input, pc, result, slotVars, heap, order, facts, loading, loadIdx, outcome,
                   error>>

\* one turn of the loop of evaluateRules, the rule throwing
RuleThrows ==
    /\ pc = "evaluateRules"
    /\ ruleIdx <= Len(input.policy.rules)
    /\ input.policy.rules[ruleIdx].evaluate.throws
    /\ calls' = Append(calls, Call("rule", input.policy.rules[ruleIdx].id))
    /\ error' = <<RuleError(input.policy.rules[ruleIdx].id)>>
    /\ pc' = "rejected"
    /\ UNCHANGED <<input, result, slotVars, heap, order, facts, loading, loadIdx, ruleIdx,
                   results, reasons, outcome>>

\* step 3: policy.resolve(results, input, facts)
ResolveOutcome ==
    /\ pc = "evaluateRules"
    /\ ruleIdx > Len(input.policy.rules)
    /\ outcome' = <<Resolve(input.policy, results)>>
    /\ calls' = Append(calls, Call("resolve", "resolve"))
    /\ pc' = "resolved"
    /\ UNCHANGED <<input, result, slotVars, heap, order, facts, loading, loadIdx, ruleIdx,
                   results, reasons, error>>

\* steps 4 to 6: collect the obligations, build the trace, return the Decision
ReturnDecision ==
    /\ pc = "resolved"
    /\ result' = [outcome |-> outcome[1],
                  reasons |-> reasons,
                  obligations |-> collectObligations(results),
                  trace |-> [facts |-> facts]]
    /\ pc' = "returned"
    /\ UNCHANGED <<input, slotVars, policyVars>>

NextPolicy ==
    \/ SortFacts \/ CallLoader \/ CallMissingLoader \/ LoaderReturns \/ LoaderThrows
    \/ FactsLoaded \/ EvaluateRule \/ RuleThrows \/ ResolveOutcome \/ ReturnDecision

(***************************************************************************)
(* Policies evaluated.                                                     *)
(***************************************************************************)
FactNames == <<"a", "b", "c">>

\* depends of one fact: absent, empty, declared names, an undeclared name,
\* and a name every object inherits
DependsChoices ==
    {<<>>, << <<>> >>, << <<"a">> >>, << <<"b">> >>, << <<"c">> >>, << <<"b", "c">> >>,
     << <<"x">> >>, << <<"constructor">> >>}

FactDefs(dependsOf, throwing) ==
    [i \in 1..Len(FactNames) |->
        [key |-> FactNames[i],
         depends |-> dependsOf[i],
         load |-> IF FactNames[i] = throwing THEN <<"throws">> ELSE <<"returns">>]]

Obligation(id, n) == [type |-> "notify", params |-> <<id, n>>]

\* allow(explanation, obligations), deny(explanation), skip(explanation)
allow(explanation, obligations) ==
    [outcome |-> "allow", explanation |-> explanation, obligations |-> obligations]

deny(explanation) == [outcome |-> "deny", explanation |-> explanation, obligations |-> <<>>]

skip(explanation) == [outcome |-> "skip", explanation |-> explanation, obligations |-> <<>>]

RuleBehaviours ==
    {"allow", "allowEmpty", "allowOne", "allowTwo", "deny", "denyWith", "skip", "throws"}

RuleReturn(id, behaviour) ==
    CASE behaviour = "allow" -> allow(<<id, "is fine">>, <<>>)
      [] behaviour = "allowEmpty" -> allow(<<id, "is fine">>, << <<>> >>)
      [] behaviour = "allowOne" -> allow(<<id, "with one">>, << <<Obligation(id, 1)>> >>)
      [] behaviour = "allowTwo" ->
             allow(<<id, "with two">>, << <<Obligation(id, 1), Obligation(id, 2)>> >>)
      [] behaviour = "deny" -> deny(<<id, "refuses">>)
      [] behaviour = "denyWith" ->
             [deny(<<id, "refuses">>) EXCEPT !.obligations = << <<Obligation(id, 3)>> >>]
      [] behaviour = "skip" -> skip(<<id, "does not apply">>)
      [] OTHER -> skip(<<>>)

RuleIds == <<"r1", "r2", "r3">>

MkRules(behaviours) ==
    [i \in 1..Len(behaviours) |->
        [id |-> RuleIds[i],
         evaluate |-> [throws |-> behaviours[i] = "throws",
                       result |-> RuleReturn(RuleIds[i], behaviours[i])]]]

\* the weight table handed to createWeightedResolver
Weights == [id \in Range(RuleIds) |-> CASE id = "r1" -> 2 [] id = "r2" -> 3 [] OTHER -> 5]

Resolvers == {"resolveAllMustAllow", "resolveAnyMustAllow", "createWeightedResolver"}

MkPolicy(factDefs, rules, resolve) ==
    [facts |-> factDefs, rules |-> rules, resolve |-> resolve, weights |-> Weights]

\* every fact graph over three facts, one loader or none throwing, under two fixed
\* rules; every rule list of up to three rules over a fixed fact graph; no facts at all
Policies ==
    {MkPolicy(FactDefs(dependsOf, throwing), MkRules(<<"allowOne", "deny">>),
              "resolveAllMustAllow") :
        dependsOf \in [1..Len(FactNames) -> DependsChoices],
        throwing \in {""} \cup Range(FactNames)}
    \cup
    {MkPolicy(FactDefs(<< <<>>, << <<"a">> >>, << <<"a", "b">> >> >>, ""),
              MkRules(behaviours), resolve) :
        behaviours \in UNION {[1..n -> RuleBehaviours] : n \in 0..Len(RuleIds)},
        resolve \in Resolvers}
    \cup
    {MkPolicy(<<>>, MkRules(<<"allowTwo", "skip">>), resolve) : resolve \in Resolvers}

InitPolicy ==
    /\ input \in {[policy |-> policy] : policy \in Policies}
    /\ pc = "evaluate"
    /\ result = <<>>
    /\ hostIdx = 0
    /\ config = <<>>
    /\ freeIntervals = <<>>
    /\ intervalIdx = 0
    /\ slotStart = 0
    /\ candidateSlots = <<>>
    /\ allSlots = <<>>
    /\ hostLog = <<>>
    /\ PolicyIdle

SpecPolicy == InitPolicy /\ [][NextPolicy]_vars

(***************************************************************************)
(* The fact graph as the policy declares it.                               *)
(***************************************************************************)
FactKeys(factDefs) == {factDefs[i].key : i \in 1..Len(factDefs)}

DependsOf(factDefs, name) ==
    LET def == factDefs[CHOOSE i \in 1..Len(factDefs) : factDefs[i].key = name]
    IN  IF def.depends = <<>> THEN {} ELSE Range(def.depends[1])

FullyDeclared(factDefs) ==
    \A name \in FactKeys(factDefs) : DependsOf(factDefs, name) \subseteq FactKeys(factDefs)

\* the facts reached from a set of declared facts in at most n steps of depends
RECURSIVE DependsWithin(_, _, _)
DependsWithin(factDefs, names, n) ==
    IF n = 0 THEN {}
    ELSE LET direct == UNION {DependsOf(factDefs, name) : name \in names}
         IN  direct \cup DependsWithin(factDefs, direct \cap FactKeys(factDefs), n - 1)

Cyclic(factDefs) ==
    \E name \in FactKeys(factDefs) : name \in DependsWithin(factDefs, {name}, Len(factDefs))

\* the invocations of one kind, in the order they were made
CallsOf(kind) == SelectSeq(calls, LAMBDA call : call.kind = kind)

LoadsOf(name) == {i \in 1..Len(CallsOf("load")) : CallsOf("load")[i].name = name}

FactsAreLoaded == pc \in {"evaluateRules", "resolved", "returned"}

\* C14: with an acyclic, fully declared fact graph every loader is invoked once (never
\* twice, and once each by the time the facts are loaded), a loader is started only after
\* the values of all loaders started before it are stored, the loader of f is invoked
\* with every name of f.depends in the loaded map, and the trace's facts have exactly
\* the keys of policy.facts.
C14_LoadersRunOnceInDependencyOrder ==
    (~Cyclic(input.policy.facts) /\ FullyDeclared(input.policy.facts)) =>
        LET loads == CallsOf("load") IN
        /\ \A name \in FactKeys(input.policy.facts) :
               /\ Cardinality(LoadsOf(name)) <= 1
               /\ FactsAreLoaded => Cardinality(LoadsOf(name)) = 1
        /\ \A i \in 1..Len(loads) :
               /\ loads[i].name \in FactKeys(input.policy.facts)
               /\ loads[i].loaded = {loads[j].name : j \in 1..(i - 1)}
               /\ DependsOf(input.policy.facts, loads[i].name) \subseteq loads[i].loaded
        /\ loading # <<>> => loading[1] = loads[Len(loads)].name
        /\ pc = "returned" =>
               DOMAIN result.trace.facts = FactKeys(input.policy.facts)

C14_Witness ==
    /\ pc = "returned"
    /\ Len(input.policy.facts) = 3
    /\ input.policy.facts[1].depends = << <<"b", "c">> >>
    /\ input.policy.facts[2].depends = << <<"c">> >>
    /\ [i \in 1..Len(CallsOf("load")) |-> CallsOf("load")[i].name] = <<"c", "b", "a">>
    /\ DOMAIN result.trace.facts = {"a", "b", "c"}

\* the facts at fault: those on a dependency cycle and those naming an undeclared fact
Offending(factDefs) ==
    {name \in FactKeys(factDefs) :
        \/ name \in DependsWithin(factDefs, {name}, Len(factDefs))
        \/ ~(DependsOf(factDefs, name) \subseteq FactKeys(factDefs))}

\* C15: when the fact graph has a dependency cycle or a fact names an undeclared
\* dependency, evaluate fails with an error whose message names an offending fact, and
\* fails fast: no loader, rule or resolver has been invoked and no Decision is returned.
C15_BadGraphFailsFastNamingAFact ==
    (Cyclic(input.policy.facts) \/ ~FullyDeclared(input.policy.facts)) =>
        /\ pc \in {"evaluate", "rejected"}
        /\ calls = <<>>
        /\ result = <<>>
        /\ pc = "rejected" =>
               \E k \in DOMAIN error[1].message :
                   error[1].message[k] \in Offending(input.policy.facts)

\* C16: every rule runs once, in list order and only after all facts are loaded, a deny
\* stopping nothing; the reasons returned are as long as policy.rules, and reasons[i]
\* carries rules[i].id with the outcome and the explanation rules[i] returned.
C16_EveryRuleRunsOnceInOrder ==
    LET rules == input.policy.rules
        ruleCalls == CallsOf("rule")
    IN  /\ Len(ruleCalls) <= Len(rules)
        /\ \A i \in 1..Len(ruleCalls) :
               /\ ruleCalls[i].name = rules[i].id
               /\ ruleCalls[i].loaded = FactKeys(input.policy.facts)
        /\ \A i, j \in 1..Len(calls) :
               (calls[i].kind = "rule" /\ calls[j].kind = "load") => j < i
        /\ pc \in {"resolved", "returned"} => Len(ruleCalls) = Len(rules)
        /\ pc = "returned" =>
               /\ Len(result.reasons) = Len(rules)
               /\ \A i \in 1..Len(rules) :
                      result.reasons[i] =
                          [rule |-> rules[i].id,
                           outcome |-> rules[i].evaluate.result.outcome,
                           explanation |-> rules[i].evaluate.result.explanation]

C16_Witness ==
    /\ pc = "returned"
    /\ [i \in 1..Len(result.reasons) |-> result.reasons[i].outcome] = <<"deny", "allow", "skip">>
    /\ [i \in 1..Len(CallsOf("rule")) |-> CallsOf("rule")[i].name] = <<"r1", "r2", "r3">>

\* the obligations rule i attaches when it allows
AllowedObligations(rules, i) ==
    LET ruleResult == rules[i].evaluate.result
    IN  IF ruleResult.outcome = "allow" /\ ruleResult.obligations # <<>>
        THEN ruleResult.obligations[1] ELSE <<>>

\* C17: the obligations of the Decision are the obligations of the rules that allow,
\* concatenated in rule order; deny and skip results add nothing, under every resolver.
C17_ObligationsAreThoseOfAllows ==
    pc = "returned" =>
        LET rules == input.policy.rules
            at == [i \in 0..Len(rules) |->
                      Len(Concat([j \in 1..i |-> AllowedObligations(rules, j)]))]
        IN  /\ Len(result.obligations) = at[Len(rules)]
            /\ \A i \in 1..Len(rules) :
                   SubSeq(result.obligations, at[i - 1] + 1, at[i])
                       = AllowedObligations(rules, i)

C17_Witness ==
    /\ pc = "returned"
    /\ input.policy.resolve = "resolveAnyMustAllow"
    /\ [i \in 1..Len(result.reasons) |-> result.reasons[i].outcome] = <<"allow", "deny", "allow">>
    /\ input.policy.rules[2].evaluate.result.obligations # <<>>
    /\ result.obligations = <<Obligation("r1", 1), Obligation("r1", 2), Obligation("r3", 1)>>

\* the weights of the first n rules that allow, summed
RECURSIVE AllowedWeight(_, _, _)
AllowedWeight(weights, rules, n) ==
    IF n = 0 THEN 0
    ELSE AllowedWeight(weights, rules, n - 1)
         + (IF rules[n].evaluate.result.outcome = "allow" THEN weights[rules[n].id] ELSE 0)

\* C18: the weighted resolver's score is the sum of the weights, in the table given at
\* construction, of the rules that allow; resolveAllMustAllow allows iff no result is
\* deny; resolveAnyMustAllow allows iff some result is allow.
C18_ResolversComputeWhatTheyName ==
    pc \in {"resolved", "returned"} =>
        LET rules == input.policy.rules
            outcomes == {rules[i].evaluate.result.outcome : i \in 1..Len(rules)}
        IN  CASE input.policy.resolve = "createWeightedResolver" ->
                     outcome[1].score = AllowedWeight(input.policy.weights, rules, Len(rules))
              [] input.policy.resolve = "resolveAllMustAllow" ->
                     outcome[1].allowed = ("deny" \notin outcomes)
              [] input.policy.resolve = "resolveAnyMustAllow" ->
                     outcome[1].allowed = ("allow" \in outcomes)

\* does the invocation call a loader, or a rule, that throws?
Throws(call) ==
    \/ /\ call.kind = "load"
       /\ Lookup(input.policy.facts, call.name)[1].load = <<"throws">>
    \/ /\ call.kind = "rule"
       /\ \E i \in 1..Len(input.policy.rules) :
              input.policy.rules[i].id = call.name /\ input.policy.rules[i].evaluate.throws

\* C19: once a loader or a rule has thrown, evaluate is rejected with the very error
\* thrown, nothing is invoked afterwards (no later loader, no rule, no resolver), no
\* fact is stored and no Decision, outcome or trace is produced.
C19_ThrownErrorsPropagateUnchanged ==
    \A i \in 1..Len(calls) :
        Throws(calls[i]) =>
            /\ i = Len(calls)
            /\ result = <<>>
            /\ outcome = <<>>
            /\ DOMAIN facts = calls[i].loaded
            /\ IF calls[i].kind = "load"
               THEN \/ pc = "loadFacts" /\ loading = <<calls[i].name>>
                    \/ pc = "rejected" /\ error = <<LoaderError(calls[i].name)>>
               ELSE pc = "rejected" /\ error = <<RuleError(calls[i].name)>>

C19_Witness ==
    /\ pc = "rejected"
    /\ error = <<LoaderError("b")>>
    /\ [i \in 1..Len(calls) |-> calls[i].name] = <<"c", "b">>
    /\ order = <<"c", "b", "a">>
    /\ DOMAIN facts = {"c"}

(***************************************************************************)
(* limits.ts: checkLimit.  limit null is <<>>, an absent consume is <<>>.  *)
(***************************************************************************)
MaxLimit == 4

\* the check refusing a use that lands exactly on the limit
checkLimit_RefusesAtLimit(in) ==
    LET limit == in.limit
        used == in.used
        consume == OrElse(in.consume, 1)
    IN  IF limit = <<>> THEN [allowed |-> TRUE, remaining |-> <<>>, obligation |-> <<>>]
        ELSE IF used + consume >= limit[1]
             THEN [allowed |-> FALSE, remaining |-> <<Max(0, limit[1] - used)>>,
                   obligation |-> <<>>]
             ELSE [allowed |-> TRUE, remaining |-> <<limit[1] - used - consume>>,
                   obligation |-> <<[type |-> "consume", params |-> [amount |-> consume]]>>]

checkLimit(in) ==
    LET limit == in.limit
        used == in.used
        consume == OrElse(in.consume, 1)
    IN  IF limit = <<>> THEN [allowed |-> TRUE, remaining |-> <<>>, obligation |-> <<>>]
        ELSE LET remaining == limit[1] - used
                 wouldExceed == used + consume > limit[1]
             IN  IF wouldExceed
                 THEN [allowed |-> FALSE, remaining |-> <<Max(0, remaining)>>,
                       obligation |-> <<>>]
                 ELSE [allowed |-> TRUE, remaining |-> <<remaining - consume>>,
                       obligation |-> <<[type |-> "consume",
                                         params |-> [amount |-> consume]]>>]

InitLimit ==
    /\ input \in [limit : Opt(-1..MaxLimit), used : -1..(MaxLimit + 1),
                  consume : Opt(-1..(MaxLimit + 1))]
    /\ pc = "checkLimit"
    /\ result = <<>>
    /\ hostIdx = 0
    /\ config = <<>>
    /\ freeIntervals = <<>>
    /\ intervalIdx = 0
    /\ slotStart = 0
    /\ candidateSlots = <<>>
    /\ allSlots = <<>>
    /\ hostLog = <<>>
    /\ PolicyIdle

CallCheckLimit ==
    /\ pc = "checkLimit"
    /\ result' = checkLimit(input)
    /\ pc' = "checked"
    /\ UNCHANGED <<input, slotVars, policyVars>>

NextLimit == CallCheckLimit

SpecLimit == InitLimit /\ [][NextLimit]_vars

\* C20: an unlimited limit allows with remaining unlimited and no obligation; else a use
\* with used + consume > limit is denied with remaining max(0, limit - used) and no
\* obligation; else it is allowed with remaining limit - used - consume and the one
\* obligation consume(amount = consume); consume is 1 when absent.  With used and consume
\* not negative the remaining reported is never negative.
C20_CheckLimitCases ==
    pc = "checked" =>
        LET used == input.used
            consume == IF input.consume = <<>> THEN 1 ELSE input.consume[1]
        IN  /\ input.limit = <<>> =>
                   /\ result.allowed
                   /\ result.remaining = <<>>
                   /\ result.obligation = <<>>
            /\ (input.limit # <<>> /\ used + consume > input.limit[1]) =>
                   /\ ~result.allowed
                   /\ result.remaining =
                          <<IF input.limit[1] - used > 0 THEN input.limit[1] - used ELSE 0>>
                   /\ result.obligation = <<>>
            /\ (input.limit # <<>> /\ used + consume <= input.limit[1]) =>
                   /\ result.allowed
                   /\ result.remaining = <<input.limit[1] - used - consume>>
                   /\ Len(result.obligation) = 1
                   /\ result.obligation[1].type = "consume"
                   /\ result.obligation[1].params.amount = consume
            /\ (used >= 0 /\ consume >= 0 /\ result.remaining # <<>>) =>
                   result.remaining[1] >= 0

C20_Witness ==
    /\ pc = "checked"
    /\ input = [limit |-> <<MaxLimit>>, used |-> MaxLimit - 1, consume |-> <<>>]
    /\ result.allowed
    /\ result.remaining = <<0>>
    /\ result.obligation[1].params.amount = 1

(***************************************************************************)
(* Date in a process whose zone is sys, and date-fns over it.  A Date's    *)
(* local fields are the wall clock of sys, held as an hour number like an  *)
(* instant; months and years are the civil ones from 2024-10 to 2026-03.   *)
(***************************************************************************)
\* day numbers of the first of each month, 2023-12-01 to 2027-02-01
MonthStarts ==
    <<0 - 394, 0 - 363, 0 - 332, 0 - 303, 0 - 272, 0 - 242, 0 - 211, 0 - 181, 0 - 150, 0 - 119,
      0 - 89, 0 - 58, 0 - 28, 3, 34, 62, 93, 123, 154, 184, 215, 246, 276, 307, 337, 368, 399,
      427, 458, 488, 519, 549, 580, 611, 641, 672, 702, 733, 764>>

\* day numbers of January 1st of 2024, 2025, 2026, 2027
YearStarts == <<0 - 363, 3, 368, 733>>

MonthIndex(day) ==
    CHOOSE m \in 1..(Len(MonthStarts) - 1) : MonthStarts[m] <= day /\ day < MonthStarts[m + 1]

YearIndex(day) ==
    CHOOSE y \in 1..(Len(YearStarts) - 1) : YearStarts[y] <= day /\ day < YearStarts[y + 1]

\* the Date whose local fields in sys read wall (new Date(y, m, d, h), setHours, ...):
\* of two instants with that wall clock the earlier, and for a wall clock that sys
\* skips the instant got with the offset in force before the transition
FromLocalFields(wall, sys) ==
    CHOOSE date \in
        {LET instants == {t \in (fields - MaxUtcOffset)..(fields + MaxUtcOffset) :
                              LocalClock(t, sys) = fields}
         IN  IF instants # {}
             THEN CHOOSE t \in instants : \A u \in instants : t <= u
             ELSE fields - UtcOffset(sys, fields - MaxUtcOffset - 1) : fields \in {wall}} : TRUE

\* date-fns startOf...: the local fields set to the unit's first hour
startOfHour(date, sys) == FromLocalFields(LocalClock(date, sys), sys)

startOfDay(date, sys) == FromLocalFields((LocalClock(date, sys) \div 24) * 24, sys)

\* weekStartsOn: 1
startOfWeek(date, sys) ==
    LET day == LocalClock(date, sys) \div 24
        diff == (IF getUTCDay(day) < 1 THEN 7 ELSE 0) + getUTCDay(day) - 1
    IN  FromLocalFields((day - diff) * 24, sys)

startOfMonth(date, sys) ==
    FromLocalFields(MonthStarts[MonthIndex(LocalClock(date, sys) \div 24)] * 24, sys)

startOfYear(date, sys) ==
    FromLocalFields(YearStarts[YearIndex(LocalClock(date, sys) \div 24)] * 24, sys)

\* date-fns endOf... plus the millisecond the source adds: the local fields set to the
\* last hour of the unit (23:59:59.999), and the instant one hour after that hour began
endOfHourPlus1(date, sys) == FromLocalFields(LocalClock(date, sys), sys) + 1

endOfDayPlus1(date, sys) ==
    FromLocalFields((LocalClock(date, sys) \div 24) * 24 + 23, sys) + 1

endOfWeekPlus1(date, sys) ==
    LET day == LocalClock(date, sys) \div 24
        diff == (IF getUTCDay(day) < 1 THEN 7 ELSE 0) + getUTCDay(day) - 1
    IN  FromLocalFields((day - diff + 6) * 24 + 23, sys) + 1

endOfMonthPlus1(date, sys) ==
    LET m == MonthIndex(LocalClock(date, sys) \div 24)
    IN  FromLocalFields((MonthStarts[m + 1] - 1) * 24 + 23, sys) + 1

endOfYearPlus1(date, sys) ==
    LET y == YearIndex(LocalClock(date, sys) \div 24)
    IN  FromLocalFields((YearStarts[y + 1] - 1) * 24 + 23, sys) + 1

\* date-fns add...: hours are added to the instant, days and more to the local fields
addHours(date, amount) == date + amount

addDays(date, amount, sys) == FromLocalFields(LocalClock(date, sys) + amount * 24, sys)

addWeeks(date, amount, sys) == addDays(date, amount * 7, sys)

\* the same day of the month (the last one, if the month is shorter), amount months on
addMonths(date, amount, sys) ==
    LET wall == LocalClock(date, sys)
        m == MonthIndex(wall \div 24)
        dayOfMonth == (wall \div 24) - MonthStarts[m]
        daysInTarget == MonthStarts[m + amount + 1] - MonthStarts[m + amount]
    IN  FromLocalFields((MonthStarts[m + amount] + Min(dayOfMonth, daysInTarget - 1)) * 24
                            + (wall % 24), sys)

addYears(date, amount, sys) == addMonths(date, amount * 12, sys)

\* date-fns-tz toZonedTime: a Date whose local fields read the wall clock of timezone
toZonedTime(date, timezone, sys) == FromLocalFields(LocalClock(date, timezone), sys)

\* date-fns-tz fromZonedTime: the local fields taken as a wall clock of timezone.  The
\* offset is guessed where the fields, read as UTC, stand and corrected once
fromZonedTime(date, timezone, sys) ==
    LET utc == LocalClock(date, sys)
        offset == UtcOffset(timezone, LocalClock(utc, sys))
        o2 == UtcOffset(timezone, utc - offset)
        o3 == UtcOffset(timezone, utc - o2)
    IN  IF offset = o2 THEN utc - offset
        ELSE IF o2 = o3 THEN utc - o2
        ELSE utc - Max(o2, o3)

(***************************************************************************)
(* time.ts.  A WindowSpec is [type, unit, timezone, duration, start, end], *)
(* the fields its variant lacks being <<>>.                                *)
(***************************************************************************)
\* a Duration is raw milliseconds (here hours) or an object of optional amounts
durationToMs(duration) ==
    IF duration.raw # <<>> THEN duration.raw[1]
    ELSE duration.hours + duration.days * 24 + duration.weeks * 7 * 24
         + duration.months * 30 * 24

getStartOfUnit(date, unit, timezone, sys) ==
    LET workingDate == IF timezone # <<>> THEN toZonedTime(date, timezone[1], sys) ELSE date
        inUnit == CASE unit = "hour" -> startOfHour(workingDate, sys)
                    [] unit = "day" -> startOfDay(workingDate, sys)
                    [] unit = "week" -> startOfWeek(workingDate, sys)
                    [] unit = "month" -> startOfMonth(workingDate, sys)
                    [] unit = "year" -> startOfYear(workingDate, sys)
    IN  IF timezone # <<>> THEN fromZonedTime(inUnit, timezone[1], sys) ELSE inUnit

getEndOfUnit(date, unit, timezone, sys) ==
    LET workingDate == IF timezone # <<>> THEN toZonedTime(date, timezone[1], sys) ELSE date
        inUnit == CASE unit = "hour" -> endOfHourPlus1(workingDate, sys)
                    [] unit = "day" -> endOfDayPlus1(workingDate, sys)
                    [] unit = "week" -> endOfWeekPlus1(workingDate, sys)
                    [] unit = "month" -> endOfMonthPlus1(workingDate, sys)
                    [] unit = "year" -> endOfYearPlus1(workingDate, sys)
    IN  IF timezone # <<>> THEN fromZonedTime(inUnit, timezone[1], sys) ELSE inUnit

addUnit(date, unit, amount, sys) ==
    CASE unit = "hour" -> addHours(date, amount)
      [] unit = "day" -> addDays(date, amount, sys)
      [] unit = "week" -> addWeeks(date, amount, sys)
      [] unit = "month" -> addMonths(date, amount, sys)
      [] unit = "year" -> addYears(date, amount, sys)

\* new Date('9999-12-31T23:59:59.999Z') and new Date(0), in hours from 2024-12-29T00:00Z
FAR_FUTURE == 69907464

EPOCH == 0 - 482064

resolveWindow(spec, at, sys) ==
    CASE spec.type = "calendar" ->
             Interval(getStartOfUnit(at, spec.unit[1], spec.timezone, sys),
                      getEndOfUnit(at, spec.unit[1], spec.timezone, sys))
      [] spec.type = "sliding" -> Interval(at - durationToMs(spec.duration[1]), at)
      [] spec.type = "lifetime" -> Interval(EPOCH, FAR_FUTURE)
      [] spec.type = "fixed" -> Interval(spec.start[1], spec.end[1])

\* <<>> is null
nextReset(spec, at, sys) ==
    CASE spec.type = "calendar" ->
             <<addUnit(getStartOfUnit(at, spec.unit[1], spec.timezone, sys),
                       spec.unit[1], 1, sys)>>
      [] spec.type = "sliding" -> <<at + durationToMs(spec.duration[1])>>
      [] spec.type \in {"lifetime", "fixed"} -> <<>>

(***************************************************************************)
(* limits.ts: availableAt.  The wall clock (new Date()) and the zone of    *)
(* the process come with the arguments, as now and sys.                    *)
(***************************************************************************)
Availability(status, at, reason) == [status |-> status, at |-> at, reason |-> reason]

\* the reset read off the wall clock, whatever reference instant is supplied
availableAt_WallClock(in) ==
    IF in.limit = <<>> \/ in.used < in.limit[1] THEN Availability("now", <<>>, <<>>)
    ELSE IF in.window = <<>> \/ in.window[1].type \in {"lifetime", "fixed"}
         THEN Availability("never", <<>>, <<"limit reached">>)
         ELSE Availability("at", nextReset(in.window[1], in.now, in.sys),
                           <<"Limit resets at ", nextReset(in.window[1], in.now, in.sys)[1]>>)

availableAt(in) ==
    LET limit == in.limit
        used == in.used
        window == in.window
        at == OrElse(in.at, in.now)
    IN  IF limit = <<>> THEN Availability("now", <<>>, <<>>)
        ELSE IF used < limit[1] THEN Availability("now", <<>>, <<>>)
        ELSE IF window = <<>> THEN Availability("never", <<>>, <<"Lifetime limit reached">>)
        ELSE IF window[1].type = "lifetime"
             THEN Availability("never", <<>>, <<"Lifetime limit reached">>)
        ELSE IF window[1].type = "fixed"
             THEN Availability("never", <<>>, <<"Fixed window limit reached">>)
        ELSE LET resetTime == nextReset(window[1], at, in.sys)
             IN  IF resetTime = <<>>
                 THEN Availability("unknown", <<>>, <<"Cannot determine reset time">>)
                 ELSE Availability("at", resetTime, <<"Limit resets at ", resetTime[1]>>)

\* the zones the process may run in
SystemZones == {"UTC", "America/New_York"}

CalendarUnits == {"hour", "day", "week", "month", "year"}

WindowSpec(type, unit, timezone, duration, start, end) ==
    [type |-> type, unit |-> unit, timezone |-> timezone, duration |-> duration,
     start |-> start, end |-> end]

Duration(raw, hours, days, weeks, months) ==
    [raw |-> raw, hours |-> hours, days |-> days, weeks |-> weeks, months |-> months]

CalendarWindows ==
    {WindowSpec("calendar", <<unit>>, timezone, <<>>, <<>>, <<>>) :
        unit \in CalendarUnits, timezone \in Opt(TimeZones)}

SlidingWindows ==
    {WindowSpec("sliding", <<>>, <<>>, <<duration>>, <<>>, <<>>) :
        duration \in {Duration(<<36>>, 0, 0, 0, 0), Duration(<<>>, 12, 1, 0, 0),
                      Duration(<<>>, 0, 0, 1, 1)}}

LifetimeWindow == WindowSpec("lifetime", <<>>, <<>>, <<>>, <<>>, <<>>)

FixedWindows == {WindowSpec("fixed", <<>>, <<>>, <<>>, <<0>>, <<48>>)}

WindowSpecs == CalendarWindows \cup SlidingWindows \cup {LifetimeWindow} \cup FixedWindows

\* days at the turn of years and months and around the transitions of 2025
WindowDays == {2, 3, 33, 61, 62, 70, 91, 92, 120, 301, 308, 336}

InitAvailableAt ==
    /\ input \in [limit : Opt({0, 2}), used : 0..3, window : Opt(WindowSpecs),
                  at : Opt({d * 24 + h : d \in WindowDays, h \in {1, 23}}),
                  now : {5000}, sys : SystemZones]
    /\ pc = "availableAt"
    /\ result = <<>>
    /\ hostIdx = 0
    /\ config = <<>>
    /\ freeIntervals = <<>>
    /\ intervalIdx = 0
    /\ slotStart = 0
    /\ candidateSlots = <<>>
    /\ allSlots = <<>>
    /\ hostLog = <<>>
    /\ PolicyIdle

CallAvailableAt ==
    /\ pc = "availableAt"
    /\ result' = availableAt(input)
    /\ pc' = "returned"
    /\ UNCHANGED <<input, slotVars, policyVars>>

NextAvailableAt == CallAvailableAt

SpecAvailableAt == InitAvailableAt /\ [][NextAvailableAt]_vars

\* C21: availableAt answers now iff the limit is unlimited or used < limit; at or over
\* the limit it answers never, with a reason, for no window, lifetime and fixed, and for
\* a calendar or sliding window it answers at with at = nextReset(window, at), at being
\* the reference instant supplied and not the wall clock.
C21_AvailableAtCases ==
    pc = "returned" =>
        LET within == input.limit = <<>> \/ input.used < input.limit[1]
            at == IF input.at = <<>> THEN input.now ELSE input.at[1]
        IN  /\ result.status = "now" <=> within
            /\ (~within /\ (input.window = <<>>
                               \/ input.window[1].type \in {"lifetime", "fixed"})) =>
                   /\ result.status = "never"
                   /\ result.reason # <<>>
            /\ (~within /\ input.window # <<>>
                        /\ input.window[1].type \in {"calendar", "sliding"}) =>
                   /\ result.status = "at"
                   /\ result.at = nextReset(input.window[1], at, input.sys)
                   /\ result.at # <<>>

C21_Witness ==
    /\ pc = "returned"
    /\ input.limit = <<2>> /\ input.used = 2
    /\ input.window = <<WindowSpec("calendar", <<"day">>, <<"UTC">>, <<>>, <<>>, <<>>)>>
    /\ input.at = <<70 * 24 + 1>>
    /\ input.sys = "UTC"
    /\ result.status = "at"
    /\ result.at = <<71 * 24>>

(***************************************************************************)
(* entitlements.ts: createEntitlements({adapter}).  The adapter is         *)
(* [entitlements, usage]: the map getEntitlements resolves to, as a        *)
(* function over the actions it defines, and the count getUsage resolves   *)
(* to for each action.  Each adapter call is logged in calls.              *)
(***************************************************************************)
Entitlement(limit, window) == [limit |-> limit, window |-> window]

\* entitlements[action] on the plain object the adapter returns: "own" with the
\* entitlement, "inherited" for a member every object has (limit and window are then
\* undefined), or "none"
EntitlementOf(entitlements, action) ==
    IF action \in DOMAIN entitlements THEN [found |-> "own", entitlement |-> entitlements[action]]
    ELSE IF action \in ObjectPrototypeKeys THEN [found |-> "inherited", entitlement |-> <<>>]
    ELSE [found |-> "none", entitlement |-> <<>>]

GetEntitlements(actorId) == [kind |-> "getEntitlements", actorId |-> actorId, action |-> <<>>, interval |-> <<>>]

GetUsage(actorId, action, interval) == [kind |-> "getUsage", actorId |-> actorId, action |-> <<action>>, interval |-> <<interval>>]

\* the block "Load usage": the interval counted, <<>> when getUsage is not called
UsageInterval(entitlement, now, sys) ==
    IF entitlement.limit # <<>>
    THEN <<resolveWindow(IF entitlement.window # <<>> THEN entitlement.window[1]
                         ELSE LifetimeWindow, now, sys)>>
    ELSE <<>>

\* not a number
NaN == "NaN"

Reason(rule, ruleOutcome, explanation) == [rule |-> rule, outcome |-> ruleOutcome, explanation |-> explanation]

Decision(allowed, ruleReasons, obligations, traceFacts) == [outcome |-> [allowed |-> allowed], reasons |-> ruleReasons, obligations |-> obligations, trace |-> [facts |-> traceFacts]]

\* entitlements[action] as the code reads it on: a member every object has is an
\* entitlement whose limit is undefined (not null) and whose window is missing
FoundEntitlement(found) ==
    IF found.found = "inherited" THEN Entitlement(<<"undefined">>, <<>>) ELSE found.entitlement

\* the interval of the block "Load usage" for the entitlement read
FoundInterval(in, found) == UsageInterval(FoundEntitlement(found), in.now, in.sys)

\* the getUsage call of the block "Load usage", if it is made
UsageCall(in, action, interval) ==
    IF interval # <<>> THEN <<GetUsage(in.actorId, action, interval[1])>> ELSE <<>>

\* check once entitlements[action] is read and the interval to count over resolved
checkFound(in, found, interval) ==
    LET actorId == in.actorId
        action == in.action
        consume == OrElse(in.consume, 1)
        entitlements == in.adapter.entitlements
        entitlement == found.entitlement
        used == IF interval # <<>> THEN in.adapter.usage[action] ELSE 0
    IN  IF found.found = "none"
        THEN [result |-> Decision(FALSE,
                                  <<Reason("entitlement-exists", "deny",
                                           <<"No entitlement defined for action: ", action>>)>>,
                                  <<>>, [entitlements |-> entitlements]),
              calls |-> <<GetEntitlements(actorId)>>]
        ELSE IF found.found = "inherited"
        THEN \* limit and window undefined: the lifetime usage is read, limit - used is
             \* NaN and used + consume > undefined is false
             [result |-> Decision(TRUE,
                                  <<Reason("limit-check", "allow",
                                           <<"Action allowed", <<NaN>>, " remaining">>)>>,
                                  <<[type |-> "consume", params |-> [amount |-> consume]]>>,
                                  [entitlements |-> entitlements,
                                   usage |-> [a \in {action} |-> used]]),
              calls |-> <<GetEntitlements(actorId)>> \o UsageCall(in, action, interval)]
        ELSE LET limitResult == checkLimit([limit |-> entitlement.limit, used |-> used,
                                            consume |-> <<consume>>])
             IN  [result |-> Decision(limitResult.allowed,
                                      <<Reason("limit-check",
                                               IF limitResult.allowed THEN "allow" ELSE "deny",
                                               IF limitResult.allowed
                                               THEN <<"Action allowed", limitResult.remaining,
                                                      " remaining">>
                                               ELSE <<"Limit exceeded", used,
                                                      entitlement.limit[1]>>)>>,
                                      limitResult.obligation,
                                      [entitlements |-> entitlements,
                                       usage |-> [a \in {action} |-> used]]),
                  calls |-> <<GetEntitlements(actorId)>> \o UsageCall(in, action, interval)]

\* check(input): [result, calls]
check(in) ==
    checkFound(in, EntitlementOf(in.adapter.entitlements, in.action),
               FoundInterval(in, EntitlementOf(in.adapter.entitlements, in.action)))

\* limits.ts remainingQuota: <<>> is null
remainingQuota(limit, used) == IF limit = <<>> THEN <<>> ELSE <<Max(0, limit[1] - used)>>

\* reading window.type of undefined
WindowTypeError == [name |-> "TypeError", message |-> <<"Cannot read properties of undefined (reading 'type')">>]

\* availableAt of the engine once entitlements[action] is read and the interval resolved
availableAtFound(in, found, interval) ==
    LET actorId == in.actorId
        action == in.action
        entitlement == found.entitlement
        used == IF interval # <<>> THEN in.adapter.usage[action] ELSE 0
    IN  IF found.found = "none"
        THEN [result |-> <<Availability("never", <<>>,
                                        <<"No entitlement defined for action: ", action>>)>>,
              error |-> <<>>,
              calls |-> <<GetEntitlements(actorId)>>]
        ELSE IF found.found = "inherited"
        THEN \* the lifetime usage is read; computeAvailableAt passes limit === null,
             \* used < undefined and window === null, and throws at window.type
             [result |-> <<>>,
              error |-> <<WindowTypeError>>,
              calls |-> <<GetEntitlements(actorId)>> \o UsageCall(in, action, interval)]
        ELSE [result |-> <<availableAt([limit |-> entitlement.limit, used |-> used,
                                        window |-> entitlement.window, at |-> <<>>,
                                        now |-> in.now, sys |-> in.sys])>>,
              error |-> <<>>,
              calls |-> <<GetEntitlements(actorId)>> \o UsageCall(in, action, interval)]

\* availableAt(input) of the engine: [result, error, calls]
queryAvailableAt(in) ==
    availableAtFound(in, EntitlementOf(in.adapter.entitlements, in.action),
                     FoundInterval(in, EntitlementOf(in.adapter.entitlements, in.action)))

RemainingUses(uses, limitedBy) == [uses |-> uses, limitedBy |-> limitedBy]

\* remainingUses once entitlements[action] is read and the interval resolved
remainingUsesFound(in, found, interval) ==
    LET actorId == in.actorId
        action == in.action
        entitlement == found.entitlement
    IN  IF found.found = "none"
        THEN [result |-> RemainingUses(<<0>>, <<"no-entitlement">>),
              calls |-> <<GetEntitlements(actorId)>>]
        ELSE IF found.found = "inherited"
        THEN \* Math.max(0, undefined - used)
             [result |-> RemainingUses(<<NaN>>, <<action>>),
              calls |-> <<GetEntitlements(actorId)>> \o UsageCall(in, action, interval)]
        ELSE IF entitlement.limit = <<>>
        THEN [result |-> RemainingUses(<<>>, <<>>), calls |-> <<GetEntitlements(actorId)>>]
        ELSE [result |-> RemainingUses(<<Max(0, entitlement.limit[1]
                                                 - in.adapter.usage[action])>>, <<action>>),
              calls |-> <<GetEntitlements(actorId)>> \o UsageCall(in, action, interval)]

\* remainingUses(input): [result, calls]
remainingUses(in) ==
    remainingUsesFound(in, EntitlementOf(in.adapter.entitlements, in.action),
                       FoundInterval(in, EntitlementOf(in.adapter.entitlements, in.action)))

QuotaState(name, limit, used, remaining, window, resetsAt, interval) == [name |-> name, limit |-> limit, used |-> used, remaining |-> remaining, window |-> window, resetsAt |-> resetsAt, interval |-> interval]

ActionCapability(status, reason, at, quota, obligations) == [status |-> status, reason |-> reason, availableAt |-> at, quota |-> quota, obligations |-> obligations]

\* the QuotaState of the loop of capabilities
quotaStateOf(in, action, entitlement, used, interval) ==
    QuotaState(action, entitlement.limit, used, remainingQuota(entitlement.limit, used),
               entitlement.window,
               IF entitlement.window # <<>>
               THEN nextReset(entitlement.window[1], in.now, in.sys) ELSE <<>>,
               interval)

\* the body of the loop of capabilities once entitlements[action] is read, the interval
\* resolved and the usage and the quota state got: [capability, calls]
CapabilityFound(in, action, found, interval, used, quotaState, availability) ==
    LET entitlement == found.entitlement
    IN  IF found.found = "none"
        THEN [capability |-> ActionCapability("unavailable",
                                 <<"No entitlement defined for action: ", action>>,
                                 <<>>, <<>>, <<>>),
              calls |-> <<>>]
        ELSE IF found.found = "inherited"
        THEN \* limit undefined: usage read over the lifetime, remaining NaN, used >=
             \* undefined false, so available with the quota and the obligation
             [capability |-> ActionCapability("available", <<>>, <<>>,
                                 <<QuotaState(action, <<"undefined">>, used, <<NaN>>,
                                              <<"undefined">>, <<>>, interval)>>,
                                 <<[type |-> "consume", params |-> [amount |-> 1]]>>),
              calls |-> UsageCall(in, action, interval)]
        ELSE IF entitlement.limit # <<>> /\ used >= entitlement.limit[1]
        THEN [capability |-> ActionCapability("exhausted",
                                 <<"Limit exceeded", used, entitlement.limit[1]>>,
                                 IF availability.status = "at" THEN availability.at ELSE <<>>,
                                 <<quotaState>>, <<>>),
              calls |-> UsageCall(in, action, interval)]
        ELSE [capability |-> ActionCapability("available", <<>>, <<>>,
                                 IF entitlement.limit = <<>> THEN <<>> ELSE <<quotaState>>,
                                 checkLimit([limit |-> entitlement.limit, used |-> used,
                                             consume |-> <<1>>]).obligation),
              calls |-> UsageCall(in, action, interval)]

\* the same, the usage being loaded
CapabilityLoaded(in, action, found, interval, used) ==
    CapabilityFound(in, action, found, interval, used,
                    quotaStateOf(in, action, found.entitlement, used, interval),
                    availableAt([limit |-> found.entitlement.limit, used |-> used,
                                 window |-> found.entitlement.window, at |-> <<>>,
                                 now |-> in.now, sys |-> in.sys]))

\* the same, the interval being resolved
CapabilityOver(in, action, found, interval) ==
    CapabilityLoaded(in, action, found, interval,
                     IF interval # <<>> THEN in.adapter.usage[action] ELSE 0)

\* the body of the loop of capabilities for one action: [capability, calls]
CapabilityOf(in, action) ==
    CapabilityOver(in, action, EntitlementOf(in.adapter.entitlements, action),
                   FoundInterval(in, EntitlementOf(in.adapter.entitlements, action)))

\* capabilities from the end of the loop on, each being what the loop got for each action
Summary(in, each) ==
    [result |->
        [actions |-> [action \in Range(in.actions) |-> each[action].capability],
         summary |->
            [status \in {"available", "exhausted", "unavailable"} |->
                SelectSeq(in.actions, LAMBDA action : each[action].capability.status = status)]],
     calls |-> <<GetEntitlements(in.actorId)>>
               \o Concat([i \in 1..Len(in.actions) |-> each[in.actions[i]].calls])]

\* capabilities(input): [result, calls]; the loop runs once for each action listed
capabilities(in) == Summary(in, [action \in Range(in.actions) |-> CapabilityOf(in, action)])

(***************************************************************************)
(* Entitlement queries made.                                               *)
(***************************************************************************)
CalendarWindow(unit, timezone) == WindowSpec("calendar", <<unit>>, timezone, <<>>, <<>>, <<>>)

\* the window of the entitlement under test: none, or one of each kind
EntitlementWindows ==
    Opt({CalendarWindow("day", <<"UTC">>), CalendarWindow("month", <<"UTC">>),
         CalendarWindow("month", <<>>), CalendarWindow("day", <<"America/New_York">>),
         WindowSpec("sliding", <<>>, <<>>, <<Duration(<<36>>, 0, 0, 0, 0)>>, <<>>, <<>>),
         LifetimeWindow, WindowSpec("fixed", <<>>, <<>>, <<>>, <<0>>, <<48>>)})

\* an adapter defining api-calls as given, export (one a day) and premium (unlimited)
Adapter(limit, window, used) ==
    [entitlements |->
        [a \in {"api-calls", "export", "premium"} |->
            CASE a = "api-calls" -> Entitlement(limit, window)
              [] a = "export" -> Entitlement(<<1>>, <<CalendarWindow("day", <<>>)>>)
              [] a = "premium" -> Entitlement(<<>>, <<>>)],
     usage |->
        [a \in {"api-calls", "export", "premium", "constructor"} |->
            CASE a = "export" -> 1 [] a = "premium" -> 0 [] OTHER -> used]]

Adapters == {Adapter(limit, window, used) : limit \in Opt({0, 2}), window \in EntitlementWindows, used \in 0..3}

\* the wall clock at the call (2025-07-25T08:00Z or 2025-03-01T12:00Z) and the zone
Environments == [now : {5000, 1500}, sys : SystemZones]

\* the instants handed in as at: 2025-03-09T01:00Z and 2025-10-30T01:00Z
OverrideInstants == Opt({1681, 7321})

QueryInput(query, action, actions, consume, at, env, adapter) == [query |-> query, actorId |-> "user1", action |-> action, actions |-> actions, consume |-> consume, at |-> at, now |-> env.now, sys |-> env.sys, adapter |-> adapter]

QueriedActions == {"api-calls", "premium", "unknown", "constructor"}

ActionLists == {<<"api-calls", "export", "premium", "unknown">>, <<"constructor", "api-calls">>, <<>>}

QueryInputs ==
    {QueryInput("check", action, <<>>, consume, at, env, adapter) :
        action \in QueriedActions, consume \in Opt({0, 2}), at \in OverrideInstants,
        env \in Environments, adapter \in Adapters}
    \cup
    {QueryInput(query, action, <<>>, <<>>, <<>>, env, adapter) :
        query \in {"availableAt", "remainingUses"}, action \in QueriedActions,
        env \in Environments, adapter \in Adapters}
    \cup
    {QueryInput("capabilities", "", actions, <<>>, <<>>, env, adapter) :
        actions \in ActionLists, env \in Environments, adapter \in Adapters}

InitQuery ==
    /\ input \in QueryInputs
    /\ pc = "query"
    /\ result = <<>>
    /\ hostIdx = 0
    /\ config = <<>>
    /\ freeIntervals = <<>>
    /\ intervalIdx = 0
    /\ slotStart = 0
    /\ candidateSlots = <<>>
    /\ allSlots = <<>>
    /\ hostLog = <<>>
    /\ PolicyIdle

CallCheck ==
    /\ pc = "query"
    /\ input.query = "check"
    /\ LET call == check(input)
       IN  /\ result' = call.result
           /\ calls' = call.calls
    /\ pc' = "returned"
    /\ UNCHANGED <<input, slotVars, heap, order, facts, loading, loadIdx, ruleIdx, results,
                   reasons, outcome, error>>

CallQueryAvailableAt ==
    /\ pc = "query"
    /\ input.query = "availableAt"
    /\ LET call == queryAvailableAt(input)
       IN  /\ calls' = call.calls
           /\ IF call.error # <<>>
              THEN /\ error' = call.error
                   /\ pc' = "rejected"
                   /\ UNCHANGED result
              ELSE /\ result' = call.result[1]
                   /\ pc' = "returned"
                   /\ UNCHANGED error
    /\ UNCHANGED <<input, slotVars, heap, order, facts, loading, loadIdx, ruleIdx, results,
                   reasons, outcome>>

CallRemainingUses ==
    /\ pc = "query"
    /\ input.query = "remainingUses"
    /\ LET call == remainingUses(input)
       IN  /\ result' = call.result
           /\ calls' = call.calls
    /\ pc' = "returned"
    /\ UNCHANGED <<input, slotVars, heap, order, facts, loading, loadIdx, ruleIdx, results,
                   reasons, outcome, error>>

CallCapabilities ==
    /\ pc = "query"
    /\ input.query = "capabilities"
    /\ LET call == capabilities(input)
       IN  /\ result' = call.result
           /\ calls' = call.calls
    /\ pc' = "returned"
    /\ UNCHANGED <<input, slotVars, heap, order, facts, loading, loadIdx, ruleIdx, results,
                   reasons, outcome, error>>

NextQuery == CallCheck \/ CallQueryAvailableAt \/ CallRemainingUses \/ CallCapabilities

SpecQuery == InitQuery /\ [][NextQuery]_vars

\* the entitlement the adapter defines for the action asked, if it defines one
Defined == input.action \in DOMAIN input.adapter.entitlements

UsageCalls == SelectSeq(calls, LAMBDA call : call.kind = "getUsage")

\* C22: check on an entitlement with a finite limit calls getUsage exactly once, with
\* interval = resolveWindow(entitlement.window, at), at being the override instant when
\* one is given and the wall clock otherwise, or with the lifetime interval when there
\* is no window; the decision is that of checkLimit(limit, that usage, consume).
C22_CheckCountsTheWindowAtTheOverride ==
    (pc = "returned" /\ input.query = "check" /\ Defined
        /\ input.adapter.entitlements[input.action].limit # <<>>) =>
        LET entitlement == input.adapter.entitlements[input.action]
            at == IF input.at = <<>> THEN input.now ELSE input.at[1]
            expected == checkLimit([limit |-> entitlement.limit,
                                    used |-> input.adapter.usage[input.action],
                                    consume |-> input.consume])
        IN  /\ Len(UsageCalls) = 1
            /\ UsageCalls[1].interval =
                   <<IF entitlement.window = <<>>
                     THEN Interval(EPOCH, FAR_FUTURE)
                     ELSE resolveWindow(entitlement.window[1], at, input.sys)>>
            /\ result.outcome.allowed = expected.allowed
            /\ result.obligations = expected.obligation

\* the actions the query asks about
Asked == IF input.query = "capabilities" THEN Range(input.actions) ELSE {input.action}

\* the actions asked about for which the adapter's map has no entitlement
Unentitled == Asked \ DOMAIN input.adapter.entitlements

UsageCallsFor(action) == SelectSeq(calls, LAMBDA call : call.kind = "getUsage" /\ call.action = <<action>>)

\* C23: a query about an action for which the adapter returns no entitlement never fails
\* and answers with a value: check denies with one deny reason saying 'No entitlement
\* defined', no obligations and a trace holding the loaded entitlements; availableAt
\* answers never; remainingUses answers 0 limited by 'no-entitlement'; capabilities
\* marks the action unavailable; and getUsage is not called for the action.
C23_NoEntitlementIsAValue ==
    (pc \in {"returned", "rejected"} /\ Unentitled # {}) =>
        /\ pc = "returned"
        /\ \A action \in Unentitled : UsageCallsFor(action) = <<>>
        /\ input.query = "check" =>
               /\ result.outcome.allowed = FALSE
               /\ Len(result.reasons) = 1
               /\ result.reasons[1].outcome = "deny"
               /\ result.reasons[1].explanation[1] = "No entitlement defined for action: "
               /\ result.obligations = <<>>
               /\ result.trace.facts.entitlements = input.adapter.entitlements
        /\ input.query = "availableAt" => result.status = "never"
        /\ input.query = "remainingUses" =>
               result = RemainingUses(<<0>>, <<"no-entitlement">>)
        /\ input.query = "capabilities" =>
               \A action \in Unentitled :
                   /\ result.actions[action].status = "unavailable"
                   /\ action \in Range(result.summary.unavailable)

\* the same for the actions that are not the name of a member every object has
C23_HoldsOffInheritedNames ==
    (Unentitled \cap ObjectPrototypeKeys = {}) => C23_NoEntitlementIsAValue

CapabilityStatuses == {"available", "exhausted", "unavailable"}

\* what the claim asks of the capability of one action
ClassifiedAsClaimed(action) ==
    LET capability == result.actions[action]
        entitled == action \in DOMAIN input.adapter.entitlements
        entitlement == input.adapter.entitlements[action]
        used == input.adapter.usage[action]
        wouldAllow == check([input EXCEPT !.action = action, !.consume = <<1>>,
                                          !.at = <<>>]).result.outcome.allowed
    IN  /\ capability.status \in CapabilityStatuses
        /\ \A status \in CapabilityStatuses :
               action \in Range(result.summary[status]) <=> capability.status = status
        /\ capability.status = "unavailable" <=> ~entitled
        /\ capability.status = "available" <=> wouldAllow
        /\ entitled =>
               /\ capability.status = "exhausted" <=>
                      (entitlement.limit # <<>> /\ used >= entitlement.limit[1])
               /\ capability.status = "exhausted" =>
                      /\ capability.quota # <<>>
                      /\ capability.quota[1].name = action
                      /\ capability.quota[1].limit = entitlement.limit
                      /\ capability.quota[1].used = used
                      /\ capability.quota[1].remaining = <<0>>
                      /\ capability.reason # <<>>
                      /\ capability.availableAt =
                             IF entitlement.window # <<>>
                                /\ entitlement.window[1].type \in {"calendar", "sliding"}
                             THEN nextReset(entitlement.window[1], input.now, input.sys)
                             ELSE <<>>
               /\ (capability.status = "available" /\ entitlement.limit = <<>>) =>
                      /\ capability.quota = <<>>
                      /\ capability.obligations = <<>>
               /\ (capability.status = "available" /\ entitlement.limit # <<>>) =>
                      /\ capability.quota # <<>>
                      /\ capability.quota[1].name = action
                      /\ capability.quota[1].limit = entitlement.limit
                      /\ capability.quota[1].used = used
                      /\ capability.quota[1].remaining = <<entitlement.limit[1] - used>>
                      /\ capability.obligations =
                             <<[type |-> "consume", params |-> [amount |-> 1]]>>

\* C24: capabilities gives every action asked exactly one status and lists it in the
\* summary array of that status and no other: unavailable iff the adapter defines no
\* entitlement; exhausted iff the limit is finite and used >= limit, with the quota, a
\* reason and availableAt the reset of a calendar or sliding window and null otherwise;
\* available otherwise, with the quota and one consume(1) obligation for a finite limit
\* and neither for no limit; available exactly when check with consume 1 allows.
C24_CapabilitiesClassify ==
    (pc = "returned" /\ input.query = "capabilities") =>
        /\ DOMAIN result.actions = Range(input.actions)
        /\ \A action \in Range(input.actions) : ClassifiedAsClaimed(action)

\* the same for the actions that are not the name of a member every object has
C24_HoldsOffInheritedNames ==
    (Unentitled \cap ObjectPrototypeKeys = {}) => C24_CapabilitiesClassify

(***************************************************************************)
(* time.ts called directly: resolveWindow(spec, at), then                  *)
(* nextReset(spec, at) for the same spec and instant.  input is            *)
(* [spec, at, sys]; result holds the interval and outcome the reset.       *)
(***************************************************************************)
\* the instants asked for: hours of WindowDays and the hours at New York's transitions
WindowInstants ==
    {d * 24 + h : d \in WindowDays, h \in {1, 23}}
    \cup {NewYorkSpringForward - 1, NewYorkSpringForward, NewYorkFallBack - 1, NewYorkFallBack}

InitWindow ==
    /\ input \in [spec : WindowSpecs, at : WindowInstants, sys : SystemZones]
    /\ pc = "resolveWindow"
    /\ result = <<>>
    /\ hostIdx = 0
    /\ config = <<>>
    /\ freeIntervals = <<>>
    /\ intervalIdx = 0
    /\ slotStart = 0
    /\ candidateSlots = <<>>
    /\ allSlots = <<>>
    /\ hostLog = <<>>
    /\ PolicyIdle

CallResolveWindow ==
    /\ pc = "resolveWindow"
    /\ result' = resolveWindow(input.spec, input.at, input.sys)
    /\ pc' = "nextReset"
    /\ UNCHANGED <<input, slotVars, heap, order, facts, loading, loadIdx, ruleIdx, results,
                   reasons, outcome, error, calls>>

CallNextReset ==
    /\ pc = "nextReset"
    /\ outcome' = nextReset(input.spec, input.at, input.sys)
    /\ pc' = "returned"
    /\ UNCHANGED <<input, result, slotVars, heap, order, facts, loading, loadIdx, ruleIdx, results,
                   reasons, error, calls>>

NextWindow == CallResolveWindow \/ CallNextReset

SpecWindow == InitWindow /\ [][NextWindow]_vars

\* C30: for a calendar window the interval resolved at t contains t, its start is a
\* fixed point of the start of the unit, and nextReset at t is the end of the interval;
\* for a lifetime or fixed window the interval is the same at every instant and
\* nextReset is none.
C30_ResetIsWhereTheWindowCloses ==
    pc = "returned" =>
        /\ input.spec.type = "calendar" =>
               /\ result.start <= input.at /\ input.at < result.end
               /\ getStartOfUnit(result.start, input.spec.unit[1], input.spec.timezone,
                                 input.sys) = result.start
               /\ outcome = <<result.end>>
        /\ input.spec.type \in {"lifetime", "fixed"} =>
               /\ \A t \in WindowInstants :
                      resolveWindow(input.spec, t, input.sys) = result
               /\ outcome = <<>>

\* the same calendar windows where neither the window's zone nor the process's differs
\* from UTC
C30_HoldsInUTC ==
    (input.sys = "UTC" /\ input.spec.timezone \in {<<>>, <<"UTC">>}) =>
        C30_ResetIsWhereTheWindowCloses

\* what the claim says a booking blocks: its own event type's buffers, read from the
\* table under its eventTypeId, around it, and nothing around it without an id or
\* without an entry
ClaimedBlock(booking) ==
    LET hasEntry == /\ booking.eventTypeId # <<>>
                    /\ input.eventTypes # <<>>
                    /\ booking.eventTypeId[1] \in DOMAIN input.eventTypes[1]
        own == input.eventTypes[1][booking.eventTypeId[1]]
    IN  IF hasEntry
        THEN Interval(booking.start - OrElse(own.bufferBefore, 0),
                      booking.end + OrElse(own.bufferAfter, 0))
        ELSE Interval(booking.start, booking.end)

\* the instants of the range the claim leaves free for the host of log entry i
ClaimedFree(i) ==
    LET entry == hostLog[i]
        host == CHOOSE h \in Range(input.hosts) : h.hostId = entry.hostId
        expanded == expandSchedule(host.schedules[entry.values.scheduleKey], input.range)
    IN  {t \in RangeInstants :
            /\ Covered(expanded, t)
            /\ \A b \in Range(input.bookings) :
                   b.hostId = entry.hostId => ~Covers(ClaimedBlock(b), t)
            /\ \A b \in Range(input.blocks) :
                   b.hostId = entry.hostId => ~Covers(Interval(b.start, b.end), t)
            /\ t >= input.now + entry.values.minimumNotice
            /\ entry.values.maximumLeadTime # <<>> =>
                   t < input.now + entry.values.maximumLeadTime[1]}

ClaimedField(hostId, field) ==
    LET hostOverrides == input.eventType.hostOverrides
        provided == /\ hostOverrides # <<>>
                    /\ hostId \in DOMAIN hostOverrides[1]
                    /\ field \in DOMAIN hostOverrides[1][hostId]
                    /\ hostOverrides[1][hostId][field] # <<>>
    IN  IF provided THEN hostOverrides[1][hostId][field] ELSE input.eventType[field]

\* the values the claim has the host loop use, the defaults applied
ClaimedValues(hostId) ==
    [scheduleKey     |-> OrElse(ClaimedField(hostId, "scheduleKey"), "default"),
     slotLength      |-> ClaimedField(hostId, "length"),
     slotInterval    |-> IF ClaimedField(hostId, "slotInterval") # <<>>
                         THEN ClaimedField(hostId, "slotInterval")
                         ELSE ClaimedField(hostId, "length"),
     bufferBefore    |-> OrElse(ClaimedField(hostId, "bufferBefore"), 0),
     bufferAfter     |-> OrElse(ClaimedField(hostId, "bufferAfter"), 0),
     minimumNotice   |-> OrElse(ClaimedField(hostId, "minimumNotice"), 0),
     maximumLeadTime |-> ClaimedField(hostId, "maximumLeadTime"),
     maxPerDay       |-> ClaimedField(hostId, "maxPerDay"),
     maxPerWeek      |-> ClaimedField(hostId, "maxPerWeek")]

\* C27: the configuration used for a host is resolved field by field: the value of
\* hostOverrides[h] where it provides one that is not undefined, the base event type's
\* value otherwise (also for a field the override holds as undefined), the defaults
\* applying only where the resolved value is absent; another host's override counts
\* for nothing.
C27_ConfigResolvedFieldByField ==
    \A i \in 1..Len(hostLog) : hostLog[i].values = ClaimedValues(hostLog[i].hostId)

\* the same for overrides none of whose fields is held as undefined
C27_HoldsForDefinedOverrides ==
    (input.eventType.hostOverrides # <<>> =>
        \A h \in DOMAIN input.eventType.hostOverrides[1] :
            \A f \in DOMAIN input.eventType.hostOverrides[1][h] :
                input.eventType.hostOverrides[1][h][f] # <<>>)
    => C27_ConfigResolvedFieldByField

(***************************************************************************)
(* helpers.ts: expandRecurrence(rule, range).  A RecurrenceRule is         *)
(* [frequency, days, dayOfMonth, startTime, endTime, timezone, start,      *)
(* until, count, exclude]; days is a set.  The loop runs a day a step:     *)
(* slotStart holds currentDate, intervalIdx holds count and                *)
(* candidateSlots holds intervals.                                         *)
(***************************************************************************)
getDayOfMonthInTimezone(date, timezone) ==
    LET day == LocalClock(date, timezone) \div 24
    IN  day - MonthStarts[MonthIndex(day)] + 1

isExcluded(date, excludeDates, timezone) ==
    \E i \in 1..Len(excludeDates) :
        LocalClock(excludeDates[i], timezone) \div 24 = LocalClock(date, timezone) \div 24

\* the ISO week number of the UTC date of an instant
getWeekNumber(date) ==
    LET d == date \div 24
        dayNum == IF getUTCDay(d) = 0 THEN 7 ELSE getUTCDay(d)
        thursday == d + 4 - dayNum
        yearStart == JanuaryFirst(getUTCFullYear(thursday))
    IN  ((thursday - yearStart) + 1 + 6) \div 7

isInBiweeklyCycle(date, anchorDate) ==
    LET anchorWeek == getWeekNumber(anchorDate)
        dateWeek == getWeekNumber(date)
        anchorYear == getUTCFullYear(anchorDate \div 24)
        dateYear == getUTCFullYear(date \div 24)
        anchorTotalWeeks == anchorYear * 52 + anchorWeek
        dateTotalWeeks == dateYear * 52 + dateWeek
    IN  (dateTotalWeeks - anchorTotalWeeks) % 2 = 0

\* the switch on rule.frequency
shouldInclude(rule, range, currentDate) ==
    LET dayOfWeek == getDayOfWeekInTimezone(currentDate, rule.timezone)
        dayOfMonth == getDayOfMonthInTimezone(currentDate, rule.timezone)
    IN  CASE rule.frequency = "daily" -> rule.days = <<>> \/ dayOfWeek \in rule.days[1]
          [] rule.frequency = "weekly" -> rule.days # <<>> /\ dayOfWeek \in rule.days[1]
          [] rule.frequency = "biweekly" ->
                 /\ rule.days # <<>> /\ dayOfWeek \in rule.days[1]
                 /\ isInBiweeklyCycle(currentDate, OrElse(rule.start, range.start))
          [] rule.frequency = "monthly" -> rule.dayOfMonth = <<dayOfMonth>>

\* the interval a turn of the loop pushes, if it pushes one
Occurrence(rule, range, currentDate) ==
    LET start == localTimeToUtc(currentDate, rule.startTime, rule.timezone)
        end == localTimeToUtc(currentDate, rule.endTime, rule.timezone)
    IN  IF /\ shouldInclude(rule, range, currentDate)
           /\ ~isExcluded(currentDate, rule.exclude, rule.timezone)
           /\ \/ start >= range.start /\ end <= range.end
              \/ start >= range.start /\ start < range.end
        THEN <<Interval(start, end)>> ELSE <<>>

effectiveEnd(rule, range) ==
    IF rule.until # <<>> THEN Min(range.end + 24, rule.until[1]) ELSE range.end + 24

\* the condition of the while loop
RecurrenceGoesOn ==
    /\ slotStart < effectiveEnd(input.rule, input.range)
    /\ IF input.rule.count = <<>> THEN TRUE ELSE intervalIdx < input.rule.count[1]

MkRecurrence(frequency, days, dayOfMonth, times, timezone, start, limits) ==
    [frequency |-> frequency, days |-> days, dayOfMonth |-> dayOfMonth,
     startTime |-> times[1], endTime |-> times[2], timezone |-> timezone,
     start |-> start, until |-> limits.until, count |-> limits.count,
     exclude |-> limits.exclude]

\* no limit, until 2025-01-08, two occurrences, or not on Monday 2024-12-30
RecurrenceLimits ==
    {[until |-> <<>>, count |-> <<>>, exclude |-> <<>>],
     [until |-> <<10 * 24>>, count |-> <<>>, exclude |-> <<>>],
     [until |-> <<>>, count |-> <<2>>, exclude |-> <<>>],
     [until |-> <<>>, count |-> <<>>, exclude |-> <<24>>]}

\* one hour in the morning, an end before the start, an end at the start
RecurrenceTimes == {<<9, 10>>, <<17, 9>>, <<9, 9>>}

RecurrenceRules ==
    {MkRecurrence(frequency, days, IF frequency = "monthly" THEN <<1>> ELSE <<>>, times,
                  timezone, start, limits) :
        frequency \in {"daily", "weekly", "biweekly", "monthly"},
        days \in {<<>>, <<{"monday"}>>, <<{"monday", "thursday"}>>},
        times \in RecurrenceTimes, timezone \in {"UTC", "Asia/Tokyo"},
        start \in Opt({0 - 6 * 24}), limits \in RecurrenceLimits}

\* three weeks from Sunday 2024-12-29, four weeks from Monday 2026-12-21 (2026 has 53
\* ISO weeks), and a range that starts and ends within a day
RecurrenceRanges == {Interval(0, 21 * 24), Interval(722 * 24, 750 * 24), Interval(30, 8 * 24 + 12)}

InitRecurrence ==
    /\ input \in [rule : RecurrenceRules, range : RecurrenceRanges]
    /\ pc = "expandRecurrence"
    /\ result = <<>>
    /\ hostIdx = 0
    /\ config = <<>>
    /\ freeIntervals = <<>>
    /\ intervalIdx = 0
    /\ slotStart = input.range.start - 24
    /\ candidateSlots = <<>>
    /\ allSlots = <<>>
    /\ hostLog = <<>>
    /\ PolicyIdle

\* one turn of the while loop
RecurrenceDay ==
    /\ pc = "expandRecurrence"
    /\ RecurrenceGoesOn
    /\ candidateSlots' = candidateSlots \o Occurrence(input.rule, input.range, slotStart)
    /\ intervalIdx' = intervalIdx + Len(Occurrence(input.rule, input.range, slotStart))
    /\ slotStart' = slotStart + 24
    /\ UNCHANGED <<input, pc, result, hostIdx, config, freeIntervals, allSlots, hostLog>>
    /\ UNCHANGED policyVars

ReturnRecurrence ==
    /\ pc = "expandRecurrence"
    /\ ~RecurrenceGoesOn
    /\ result' = candidateSlots
    /\ pc' = "returned"
    /\ UNCHANGED <<input, hostIdx, config, freeIntervals, intervalIdx, slotStart,
                   candidateSlots, allSlots, hostLog>>
    /\ UNCHANGED policyVars

NextRecurrence == RecurrenceDay \/ ReturnRecurrence

SpecRecurrence == InitRecurrence /\ [][NextRecurrence]_vars

\* the Monday-based week a day number lies in, counted from 2024-12-23
WeekIndex(day) == (day + 6) \div 7

\* the local days of the rule's zone whose occurrence could start within the range
LocalDays == ((input.range.start \div 24) - 2)..((input.range.end \div 24) + 2)

\* the instant the rule's startTime is on local day d (the zones here keep one offset)
StartOn(d) == d * 24 + input.rule.startTime - UtcOffset(input.rule.timezone, d * 24)

\* the biweekly rules nothing else limits, their end after their start
PlainBiweekly ==
    /\ input.rule.frequency = "biweekly"
    /\ input.rule.days # <<>>
    /\ input.rule.until = <<>> /\ input.rule.count = <<>> /\ input.rule.exclude = <<>>
    /\ input.rule.startTime < input.rule.endTime

\* C28: a biweekly rule includes a day iff its weekday is in rule.days and the number
\* of Monday-based weeks between the day's week and the week of the anchor (rule.start,
\* else range.start) is even; successive occurrences of a single weekday are 14 days
\* apart, also across the turn of a year of 53 ISO weeks.
C28_BiweeklyIsEveryOtherIsoWeek ==
    (pc = "returned" /\ PlainBiweekly) =>
        LET anchor == OrElse(input.rule.start, input.range.start)
            anchorDay == LocalClock(anchor, input.rule.timezone) \div 24
        IN  /\ {result[i].start : i \in 1..Len(result)}
                   = {StartOn(d) : d \in
                         {d \in LocalDays :
                             /\ DAY_INDEX_TO_NAME[getUTCDay(d) + 1] \in input.rule.days[1]
                             /\ (WeekIndex(d) - WeekIndex(anchorDay)) % 2 = 0
                             /\ input.range.start <= StartOn(d)
                             /\ StartOn(d) < input.range.end}}
            /\ Cardinality(input.rule.days[1]) = 1 =>
                   \A i \in 1..(Len(result) - 1) :
                       result[i + 1].start - result[i].start = 14 * 24

\* the same within the ranges that do not reach into 2027
C28_HoldsBefore2027 ==
    input.range.end < 733 * 24 => C28_BiweeklyIsEveryOtherIsoWeek

\* C29: every interval expandRecurrence returns is non-empty and starts within the
\* range, whatever the rule, and no more than rule.count are returned when count is set.
C29_OccurrencesNonEmptyWithinRange ==
    pc = "returned" =>
        /\ \A i \in 1..Len(result) :
               /\ result[i].start < result[i].end
               /\ input.range.start <= result[i].start
               /\ result[i].start < input.range.end
        /\ input.rule.count # <<>> => Len(result) <= input.rule.count[1]

\* the same for the rules whose endTime is later than their startTime
C29_HoldsForForwardTimes ==
    input.rule.startTime < input.rule.endTime => C29_OccurrencesNonEmptyWithinRange

(***************************************************************************)
(* Date objects.  A Date is a reference into heap, the sequence of the     *)
(* times the Date objects alive hold; new Date(...) appends a cell.  The   *)
(* caller owns the Dates it passes in, time.ts owns EPOCH and FAR_FUTURE,  *)
(* and the caller may call setTime on any Date a call returned to it.      *)
(***************************************************************************)
CallerDates == <<"at", "spec.start", "spec.end", "from.start", "from.end",
                 "subtract.start", "subtract.end">>

ModuleDates == <<"EPOCH", "FAR_FUTURE">>

Ref(name) ==
    LET names == CallerDates \o ModuleDates
    IN  CHOOSE r \in 1..Len(names) : names[r] = name

\* the time the caller gave the Date it passes in under that name
Original(name) ==
    CASE name = "at" -> input.at
      [] name = "spec.start" ->
             IF input.spec.type = "fixed" THEN input.spec.start[1] ELSE input.at
      [] name = "spec.end" ->
             IF input.spec.type = "fixed" THEN input.spec.end[1] ELSE input.at
      [] name = "from.start" -> input.from.start
      [] name = "from.end" -> input.from.end
      [] name = "subtract.start" -> input.subtract.start
      [] name = "subtract.end" -> input.subtract.end

MaxCalls == 2

\* the spec as the call reads it: the Dates of a fixed window hold what the heap holds
SpecRead(h) ==
    IF input.spec.type = "fixed"
    THEN [input.spec EXCEPT !.start = <<h[Ref("spec.start")]>>,
                            !.end = <<h[Ref("spec.end")]>>]
    ELSE input.spec

\* intervals of new Dates holding the times of the intervals of values
NewIntervals(h, values) ==
    [heap |-> h \o Concat([i \in 1..Len(values) |-> <<values[i].start, values[i].end>>]),
     returned |-> [i \in 1..Len(values) |->
                      Interval(Len(h) + 2 * i - 1, Len(h) + 2 * i)]]

\* resolveWindow over Date objects: which Dates the returned interval holds
resolveWindowDates(h) ==
    LET value == resolveWindow(SpecRead(h), h[Ref("at")], input.sys)
    IN  CASE input.spec.type = "calendar" -> NewIntervals(h, <<value>>)
          [] input.spec.type = "sliding" ->
                 [heap |-> Append(h, value.start),
                  returned |-> <<Interval(Len(h) + 1, Ref("at"))>>]
          [] input.spec.type = "lifetime" ->
                 [heap |-> h, returned |-> <<Interval(Ref("EPOCH"), Ref("FAR_FUTURE"))>>]
          [] input.spec.type = "fixed" ->
                 [heap |-> h, returned |-> <<Interval(Ref("spec.start"), Ref("spec.end"))>>]

\* the caller's two intervals as the call reads them
FromRead(h) == Interval(h[Ref("from.start")], h[Ref("from.end")])

SubtractRead(h) == Interval(h[Ref("subtract.start")], h[Ref("subtract.end")])

\* mergeIntervals and subtractIntervals over Date objects: every Date they return
\* comes from cloneInterval or new Date
mergeIntervalsDates(h) == NewIntervals(h, mergeIntervals(<<FromRead(h), SubtractRead(h)>>))

subtractIntervalsDates(h) ==
    NewIntervals(h, subtractIntervals(<<FromRead(h)>>, <<SubtractRead(h)>>))

\* the times the intervals of references hold
Held(h, returned) ==
    [i \in 1..Len(returned) |-> Interval(h[returned[i].start], h[returned[i].end])]

ReturnedDates(fn, call) ==
    [fn |-> fn, returned |-> call.returned, values |-> Held(call.heap, call.returned)]

AliasSpecs ==
    {WindowSpec("calendar", <<"day">>, <<>>, <<>>, <<>>, <<>>),
     WindowSpec("calendar", <<"month">>, <<"Europe/Berlin">>, <<>>, <<>>, <<>>),
     WindowSpec("sliding", <<>>, <<>>, <<Duration(<<36>>, 0, 0, 0, 0)>>, <<>>, <<>>),
     LifetimeWindow}
    \cup FixedWindows

InitAlias ==
    /\ input \in [spec : AliasSpecs, at : {49, 1500}, sys : {"UTC"},
                  from : {Interval(10, 20)},
                  subtract : {Interval(15, 18), Interval(18, 30)}]
    /\ heap = [r \in 1..Len(CallerDates) |-> Original(CallerDates[r])]
                  \o <<EPOCH, FAR_FUTURE>>
    /\ pc = "caller"
    /\ result = <<>>
    /\ hostIdx = 0
    /\ config = <<>>
    /\ freeIntervals = <<>>
    /\ intervalIdx = 0
    /\ slotStart = 0
    /\ candidateSlots = <<>>
    /\ allSlots = <<>>
    /\ hostLog = <<>>
    /\ order = <<>>
    /\ facts = <<>>
    /\ loading = <<>>
    /\ loadIdx = 0
    /\ ruleIdx = 0
    /\ results = <<>>
    /\ reasons = <<>>
    /\ outcome = <<>>
    /\ error = <<>>
    /\ calls = <<>>

CallResolveWindowDates ==
    /\ pc = "caller"
    /\ Len(calls) < MaxCalls
    /\ LET call == resolveWindowDates(heap)
       IN  /\ heap' = call.heap
           /\ calls' = Append(calls, ReturnedDates("resolveWindow", call))
    /\ UNCHANGED <<input, pc, result, slotVars, order, facts, loading, loadIdx, ruleIdx,
                   results, reasons, outcome, error>>

CallMergeIntervalsDates ==
    /\ pc = "caller"
    /\ Len(calls) < MaxCalls
    /\ LET call == mergeIntervalsDates(heap)
       IN  /\ heap' = call.heap
           /\ calls' = Append(calls, ReturnedDates("mergeIntervals", call))
    /\ UNCHANGED <<input, pc, result, slotVars, order, facts, loading, loadIdx, ruleIdx,
                   results, reasons, outcome, error>>

CallSubtractIntervalsDates ==
    /\ pc = "caller"
    /\ Len(calls) < MaxCalls
    /\ LET call == subtractIntervalsDates(heap)
       IN  /\ heap' = call.heap
           /\ calls' = Append(calls, ReturnedDates("subtractIntervals", call))
    /\ UNCHANGED <<input, pc, result, slotVars, order, facts, loading, loadIdx, ruleIdx,
                   results, reasons, outcome, error>>

\* the caller sets the time of a Date that a call returned to it
SetTimeOfReturned ==
    /\ pc = "caller"
    /\ \E i \in 1..Len(calls) :
           \E j \in 1..Len(calls[i].returned), field \in {"start", "end"} :
               heap' = [heap EXCEPT ![calls[i].returned[j][field]] = input.at + 1000]
    /\ UNCHANGED <<input, pc, result, slotVars, order, facts, loading, loadIdx, ruleIdx,
                   results, reasons, outcome, error, calls>>

NextAlias ==
    \/ CallResolveWindowDates
    \/ CallMergeIntervalsDates
    \/ CallSubtractIntervalsDates
    \/ SetTimeOfReturned

SpecAlias == InitAlias /\ [][NextAlias]_vars

\* the Dates a call returned
DatesOf(call) ==
    UNION {{call.returned[j].start, call.returned[j].end} : j \in 1..Len(call.returned)}

\* what the call returns when nothing was mutated: the function of the times the
\* caller gave
Unmutated(fn) ==
    CASE fn = "resolveWindow" -> <<resolveWindow(input.spec, input.at, input.sys)>>
      [] fn = "mergeIntervals" -> mergeIntervals(<<input.from, input.subtract>>)
      [] fn = "subtractIntervals" -> subtractIntervals(<<input.from>>, <<input.subtract>>)

\* C25: no Date in a value returned by mergeIntervals, subtractIntervals or
\* resolveWindow is a Date the caller supplied or a Date held by the result of another
\* call; so, whatever Dates of results the caller sets afterwards, the caller's own
\* Dates hold the times it gave them and every later call returns what it returns
\* when nothing was mutated.
C25_NoAliasingNoSharedState ==
    /\ \A i \in 1..Len(calls) :
           /\ \A name \in Range(CallerDates) : Ref(name) \notin DatesOf(calls[i])
           /\ \A k \in 1..Len(calls) : k # i => DatesOf(calls[i]) \cap DatesOf(calls[k]) = {}
           /\ calls[i].values = Unmutated(calls[i].fn)
    /\ \A name \in Range(CallerDates) : heap[Ref(name)] = Original(name)

\* the same where the window is a calendar window: every Date returned is new
C25_HoldsForCalendarWindows ==
    input.spec.type = "calendar" => C25_NoAliasingNoSharedState

\* two calls were made and a Date of the first was set before the second
C25_CalendarMutatedBetweenCalls ==
    /\ input.spec.type = "calendar"
    /\ Len(calls) = 2
    /\ calls[1].fn = "resolveWindow"
    /\ calls[2].fn = "resolveWindow"
    /\ Held(heap, calls[1].returned) # calls[1].values

=============================================================================
